---- MODULE Spec2Model ----
(***************************************************************************)
(* A model of plox, the tree-walking Lox interpreter of                    *)
(* src/craftinginterpreters: the Environment scope chain, the callables    *)
(* of LoxCallable.py, the Resolver's scope analysis and the Interpreter's  *)
(* statement and expression visitors.                                      *)
(*                                                                         *)
(* Python objects live in heaps (sequences indexed by object identity).    *)
(* The Python call stack of visitor activations is the variable `stack`;   *)
(* `ctl` says what the top activation does next.                           *)
(***************************************************************************)
EXTENDS Integers, Sequences, FiniteSets, TLC

VARIABLES
    envs,         \* heap of Environment objects: [enclosing, vals]
    funs,         \* heap of LoxFunction objects: [declaration, closure, isInitializer]
    classes,      \* heap of LoxClass objects: [name, methods, super_class]
    insts,        \* heap of LoxInstance objects: [klass, fields]
    environment,  \* Interpreter.environment (an index into envs)
    locals,       \* Interpreter.locals: reference node id -> depth
    resolution,   \* whether Resolver.resolve ran, and the error it reported
    scanner,      \* the Scanner that reads the source string, if there is one
    parser,       \* the Parser that reads the token list, if there is one
    program,      \* the List[Stmt] handed to Interpreter.interpret
    stack,        \* Python call stack, innermost activation last
    ctl,          \* what happens next: execute / evaluate / a value / an exception
    output,       \* lines written by print()
    reports,      \* calls of error_report(token, message)
    evlog,        \* history: ids of the Expr nodes passed to evaluate(), in order
    runlog,       \* history: ids of the statements passed to execute(), in order
    brk,          \* history: stack index of the visitWhile activation a break ran in
    last          \* history: the last call of the Environment API and its result

vars == << envs, funs, classes, insts, environment, locals, resolution, scanner, parser, program,
           stack, ctl,
           output, reports, evlog, runlog, brk, last >>

interpVars == << funs, classes, insts, environment, locals, resolution, scanner, parser, program,
                 stack, ctl,
                 output, reports, evlog, runlog, brk >>

(***************************************************************************)
(* Bounds of the model.                                                    *)
(***************************************************************************)
MaxChain == 3      \* longest Environment chain the API specification builds
MaxEnvs == 7       \* Environment objects a run of the interpreter may allocate

(***************************************************************************)
(* Lox values as the interpreter holds them (Python objects).              *)
(***************************************************************************)
NilV == [t |-> "nil", v |-> 0]                 \* Python None
BoolV(b) == [t |-> "bool", v |-> b]            \* Python True / False
NumV(n) == [t |-> "num", v |-> n]              \* Python float
StrV(s) == [t |-> "str", v |-> s]              \* Python str
FunV(i) == [t |-> "fun", v |-> i]              \* LoxFunction funs[i]
ClassV(i) == [t |-> "class", v |-> i]          \* LoxClass classes[i]
InstV(i) == [t |-> "inst", v |-> i]            \* LoxInstance insts[i]
ClockV == [t |-> "clock", v |-> 0]             \* Interpreter.builtinClock()

\* Interpreter.py:36, the out of band variable name of the break flag
CONTINUE == "seguir"

\* Environment.enclosing of the global scope (Python None)
None == 0

(***************************************************************************)
(* A name handed to the Environment API is either a Token (it has a        *)
(* .lexeme) or a plain str (it has none).                                  *)
(***************************************************************************)
Token(s) == [kind |-> "Token", text |-> s]
PyStr(s) == [kind |-> "str", text |-> s]

\* results of a Python call: a value, or the exception it raised
Ok(h, v) == [exc |-> "none", val |-> v, h |-> h]
Raise(h, e) == [exc |-> e, val |-> NilV, h |-> h]

(***************************************************************************)
(* Environment.py                                                          *)
(***************************************************************************)
\* Environment(enclosing): a dict subclass, empty at creation
NewEnvironment(enclosing) == [enclosing |-> enclosing, vals |-> << >>]

Has(h, e, name) == name \in DOMAIN h[e].vals

\* a plausible slip: a name the enclosing Environment binds, and this one
\* does not, is set where it is bound
defineWhereBound(h, e, name, value) ==
    LET target == IF /\ ~Has(h, e, name) /\ h[e].enclosing # None
                     /\ Has(h, h[e].enclosing, name)
                  THEN h[e].enclosing ELSE e
    IN [h EXCEPT ![target].vals = [n \in (DOMAIN h[target].vals) \cup {name} |->
                                      IF n = name THEN value ELSE h[target].vals[n]]]

\* define(name:str, value)
define(h, e, name, value) ==
    [h EXCEPT ![e].vals = [n \in (DOMAIN h[e].vals) \cup {name} |->
                              IF n = name THEN value ELSE h[e].vals[n]]]

\* fetch(name:str)
RECURSIVE fetch(_, _, _)
fetch(h, e, name) ==
    IF Has(h, e, name) THEN Ok(h, h[e].vals[name])
    ELSE IF h[e].enclosing # None THEN fetch(h, h[e].enclosing, name)
    ELSE Raise(h, "NameError")

\* get(name:Token): name.lexeme of a str raises AttributeError
get(h, e, name) ==
    IF name.kind # "Token" THEN Raise(h, "AttributeError")
    ELSE fetch(h, e, name.text)

\* a plausible slip: store() that creates the binding where the chain ends
RECURSIVE storeCreating(_, _, _, _)
storeCreating(h, e, name, value) ==
    IF Has(h, e, name) THEN Ok(define(h, e, name, value), NilV)
    ELSE IF h[e].enclosing # None THEN storeCreating(h, h[e].enclosing, name, value)
    ELSE Ok(define(h, e, name, value), NilV)

\* store(name:str, value)
RECURSIVE store(_, _, _, _)
store(h, e, name, value) ==
    IF Has(h, e, name) THEN Ok(define(h, e, name, value), NilV)
    ELSE IF h[e].enclosing # None THEN store(h, h[e].enclosing, name, value)
    ELSE Raise(h, "NameError")

\* assign(name:Token, value)
assign(h, e, name, value) ==
    IF name.kind # "Token" THEN Raise(h, "AttributeError")
    ELSE store(h, e, name.text, value)

\* ancestor(distance): None.ancestor raises AttributeError; the result is an
\* Environment or None (0)
RECURSIVE ancestor(_, _, _)
ancestor(h, e, distance) ==
    IF distance > 0
    THEN IF e = None THEN [exc |-> "AttributeError", env |-> None]
         ELSE ancestor(h, h[e].enclosing, distance - 1)
    ELSE [exc |-> "none", env |-> e]

\* getAt(distance, name:Token): self.ancestor(distance).get(name)
getAt(h, e, distance, name) ==
    LET a == ancestor(h, e, distance) IN
    IF a.exc # "none" \/ a.env = None THEN Raise(h, "AttributeError")
    ELSE get(h, a.env, name)

\* assignAt(distance, name:Token, value): self.ancestor(distance).assign(name, value)
assignAt(h, e, distance, name, value) ==
    LET a == ancestor(h, e, distance) IN
    IF a.exc # "none" \/ a.env = None THEN Raise(h, "AttributeError")
    ELSE assign(h, a.env, name, value)

(***************************************************************************)
(* Python strings are sequences of characters; str(value) as visitPrint    *)
(* uses it (LoxCallable.py __str__ for callables and instances).           *)
(***************************************************************************)
Digit(d) == CASE d = 0 -> "0" [] d = 1 -> "1" [] d = 2 -> "2" [] d = 3 -> "3"
              [] d = 4 -> "4" [] d = 5 -> "5" [] d = 6 -> "6" [] d = 7 -> "7"
              [] d = 8 -> "8" [] OTHER -> "9"

RECURSIVE Digits(_)
Digits(n) == IF n < 10 THEN << Digit(n) >> ELSE Digits(n \div 10) \o << Digit(n % 10) >>

\* str() of a Python object; a float is its integral value, with the digits
\* of its fraction when it has one
pystr(fs, cs, is, v) ==
    CASE v.t = "nil" -> << "N", "o", "n", "e" >>
      [] v.t = "bool" -> IF v.v THEN << "T", "r", "u", "e" >> ELSE << "F", "a", "l", "s", "e" >>
      [] v.t = "num" -> (IF v.v < 0 THEN << "-" >> \o Digits(0 - v.v) ELSE Digits(v.v))
                          \o (IF "fraction" \in DOMAIN v THEN << "." >> \o v.fraction
                              ELSE << ".", "0" >>)
      [] v.t = "str" -> v.v
      [] v.t = "fun" -> << "fun ", fs[v.v].declaration.name, "()" >>
      [] v.t = "class" -> << "class ", cs[v.v].name >>
      [] v.t = "inst" -> << cs[is[v.v].klass].name, " instance", "." >>
      [] OTHER -> << "native function 'time'" >>

endswithDotZero(s) == Len(s) >= 2 /\ s[Len(s) - 1] = "." /\ s[Len(s)] = "0"

(***************************************************************************)
(* The abstract syntax tree (Stmt.py, Expr.py).  Every node is a record    *)
(* with its class in field k and its identity in field id; NoNode is the   *)
(* Python None of an optional field.                                       *)
(***************************************************************************)
NoNode == [k |-> "None", id |-> 0]

(***************************************************************************)
(* Control.                                                                *)
(*   exec   execute(node) is about to be called                            *)
(*   visit  node.accept(self) is about to be called inside execute         *)
(*   eval   evaluate(node) is about to be called                           *)
(*   step   the top activation goes on by itself                           *)
(*   ret    a call returned val to the top activation (node: who returned) *)
(*   raise  exception exc is propagating                                   *)
(*   idle   no call of the interpreter is active                           *)
(***************************************************************************)
Ctl(op, node, val) == [op |-> op, node |-> node, val |-> val, exc |-> "none", msg |-> ""]
Exec(n) == Ctl("exec", n, NilV)
Visit(n) == Ctl("visit", n, NilV)
Eval(n) == Ctl("eval", n, NilV)
Step == Ctl("step", NoNode, NilV)
Ret(n, v) == Ctl("ret", n, v)
Idle(phase) == [op |-> "idle", node |-> NoNode, val |-> NilV, exc |-> "none", msg |-> phase]
\* raise kind(...): val is the value a ReturnUnwinder carries, node the token's node
Exc(kind, n, v, msg) == [op |-> "raise", node |-> n, val |-> v, exc |-> kind, msg |-> msg]

Top == stack[Len(stack)]
Pop == SubSeq(stack, 1, Len(stack) - 1)
Push(fr) == Append(stack, fr)
SetTop(fr) == [stack EXCEPT ![Len(stack)] = fr]
TopIs(name) == Len(stack) > 0 /\ Top.f = name

\* Interpreter.isTruthy (Interpreter.py:162-165)
isTruthy(value) ==
    IF value.t = "nil" THEN FALSE
    ELSE IF value.t = "bool" THEN value.v
    ELSE TRUE

\* Python truth of an object, as `if not x` takes it
pytruth(value) ==
    CASE value.t = "nil" -> FALSE
      [] value.t = "bool" -> value.v
      [] value.t = "num" -> value.v # 0
      [] value.t = "str" -> value.v # << >>
      [] OTHER -> TRUE

(***************************************************************************)
(* LoxCallable.py: LoxFunction, LoxClass, LoxInstance                      *)
(***************************************************************************)
\* LoxFunction(declaration, closure, isInitializer)
LoxFunction(declaration, closure, isInitializer) ==
    [declaration |-> declaration, closure |-> closure, isInitializer |-> isInitializer]

\* LoxClass(name, methods, super_class)
LoxClass(name, methods, super_class) ==
    [name |-> name, methods |-> methods, super_class |-> super_class]

\* LoxClass.Init, LoxCallable.py:143
InitName == "init"

\* a plausible slip: the superclass is never asked
RECURSIVE findMethodOwnOnly(_, _, _)
findMethodOwnOnly(cs, c, name) ==
    IF DOMAIN cs[c].methods # {} /\ name \in DOMAIN cs[c].methods
    THEN cs[c].methods[name]
    ELSE None

\* LoxClass.findMethod: the index of the LoxFunction, or None (0)
RECURSIVE findMethod(_, _, _)
findMethod(cs, c, name) ==
    IF DOMAIN cs[c].methods # {} /\ name \in DOMAIN cs[c].methods
    THEN cs[c].methods[name]
    ELSE IF cs[c].super_class # None THEN findMethod(cs, cs[c].super_class, name)
    ELSE None

\* arity() of LoxFunction, LoxClass and builtinClock
arity(fs, cs, callee) ==
    CASE callee.t = "fun" -> Len(fs[callee.v].declaration.params)
      [] callee.t = "class" ->
            LET initializer == findMethod(cs, callee.v, InitName) IN
            IF initializer # None THEN Len(fs[initializer].declaration.params) ELSE 0
      [] OTHER -> 0

\* isinstance(callee, LoxCallable)
isCallable(value) == value.t \in {"fun", "class", "clock"}

(***************************************************************************)
(* Interpreter.py: entry, execute, statement visitors                      *)
(***************************************************************************)
hist == << evlog, runlog, brk, last >>
heap == << envs, funs, classes, insts >>

\* interpret(program), entry: Interpreter.py:130-133
interpret ==
    /\ ctl.op = "idle" /\ ctl.msg = "ready"
    /\ stack' = << [f |-> "interpret", i |-> 0] >>
    /\ ctl' = Step
    /\ UNCHANGED << heap, environment, locals, resolution, scanner, parser, program, output, reports, hist >>

\* interpret: for a_statement in program: self.execute(a_statement)
interpretLoop ==
    /\ TopIs("interpret") /\ ctl.op \in {"step", "ret"}
    /\ IF Top.i < Len(program)
       THEN /\ stack' = SetTop([Top EXCEPT !.i = @ + 1])
            /\ ctl' = Exec(program[Top.i + 1])
       ELSE /\ stack' = Pop
            /\ ctl' = Idle("returned")
    /\ UNCHANGED << heap, environment, locals, resolution, scanner, parser, program, output, reports, hist >>

\* a plausible slip: the try statement inside the loop, so that the loop goes on
interpretExceptGoesOn ==
    /\ TopIs("interpret") /\ ctl.op = "raise" /\ ctl.exc = "EvaluationError"
    /\ reports' = Append(reports, [token |-> ctl.node.id, message |-> ctl.msg])
    /\ ctl' = Step
    /\ UNCHANGED << heap, environment, locals, resolution, scanner, parser, program, stack, output, hist >>

\* interpret: except Interpreter.EvaluationError: self.error_report(token, message)
interpretExcept ==
    /\ TopIs("interpret") /\ ctl.op = "raise" /\ ctl.exc = "EvaluationError"
    /\ reports' = Append(reports, [token |-> ctl.node.id, message |-> ctl.msg])
    /\ stack' = Pop
    /\ ctl' = Idle("returned")
    /\ UNCHANGED << heap, environment, locals, resolution, scanner, parser, program, output, hist >>

\* the activations that handle the exception in flight themselves
Handles(fr, exc) ==
    \/ fr.f = "interpret" /\ exc = "EvaluationError"
    \/ fr.f = "LoxFunction.call" /\ exc = "ReturnUnwinder"
    \/ fr.f = "execute_block"

\* Python unwinds an activation that has no handler for the exception
Propagate ==
    /\ ctl.op = "raise" /\ Len(stack) > 0 /\ ~Handles(Top, ctl.exc)
    /\ stack' = Pop
    /\ UNCHANGED << heap, environment, locals, resolution, scanner, parser, program, ctl, output, reports, hist >>

\* execute(a_statement): a_statement.accept(self); env0 is history, the
\* environment in force when the statement began
execute ==
    /\ ctl.op = "exec"
    /\ stack' = Push([f |-> "execute", node |-> ctl.node, env0 |-> environment])
    /\ ctl' = Visit(ctl.node)
    /\ runlog' = Append(runlog, ctl.node.id)
    /\ UNCHANGED << heap, environment, locals, resolution, scanner, parser, program, output, reports, evlog, brk, last >>

\* a statement visitor, and execute with it, returns None
executeReturn ==
    /\ TopIs("execute") /\ ctl.op = "ret"
    /\ stack' = Pop
    /\ ctl' = Ret(Top.node, NilV)
    /\ UNCHANGED << heap, environment, locals, resolution, scanner, parser, program, output, reports, hist >>

\* visitExpression: self.evaluate(client.expression)
visitExpression ==
    /\ ctl.op = "visit" /\ ctl.node.k = "Expression"
    /\ stack' = Push([f |-> "visitExpression", node |-> ctl.node])
    /\ ctl' = Eval(ctl.node.expression)
    /\ UNCHANGED << heap, environment, locals, resolution, scanner, parser, program, output, reports, hist >>

visitExpressionReturn ==
    /\ TopIs("visitExpression") /\ ctl.op = "ret"
    /\ stack' = Pop
    /\ ctl' = Ret(Top.node, NilV)
    /\ UNCHANGED << heap, environment, locals, resolution, scanner, parser, program, output, reports, hist >>

\* visitPrint: value = self.evaluate(client.expression)
visitPrint ==
    /\ ctl.op = "visit" /\ ctl.node.k = "Print"
    /\ stack' = Push([f |-> "visitPrint", node |-> ctl.node])
    /\ ctl' = Eval(ctl.node.expression)
    /\ UNCHANGED << heap, environment, locals, resolution, scanner, parser, program, output, reports, hist >>

\* visitPrint: str(value), drop a trailing '.0', print
visitPrintValue ==
    /\ TopIs("visitPrint") /\ ctl.op = "ret"
    /\ LET str_value == pystr(funs, classes, insts, ctl.val) IN
       output' = Append(output, IF endswithDotZero(str_value)
                                THEN SubSeq(str_value, 1, Len(str_value) - 2)
                                ELSE str_value)
    /\ stack' = Pop
    /\ ctl' = Ret(Top.node, NilV)
    /\ UNCHANGED << heap, environment, locals, resolution, scanner, parser, program, reports, hist >>

\* visitVar: evaluate the initializer if there is one, else define the name as None
visitVar ==
    /\ ctl.op = "visit" /\ ctl.node.k = "Var"
    /\ IF ctl.node.initializer.k # "None"
       THEN /\ stack' = Push([f |-> "visitVar", node |-> ctl.node])
            /\ ctl' = Eval(ctl.node.initializer)
            /\ envs' = envs
       ELSE /\ envs' = define(envs, environment, ctl.node.name, NilV)
            /\ ctl' = Ret(ctl.node, NilV)
            /\ stack' = stack
    /\ UNCHANGED << funs, classes, insts, environment, locals, resolution, scanner, parser, program, output, reports, hist >>

\* visitVar: self.environment.define(client.name.lexeme, value)
visitVarDefine ==
    /\ TopIs("visitVar") /\ ctl.op = "ret"
    /\ envs' = define(envs, environment, Top.node.name, ctl.val)
    /\ stack' = Pop
    /\ ctl' = Ret(Top.node, NilV)
    /\ UNCHANGED << funs, classes, insts, environment, locals, resolution, scanner, parser, program, output, reports, hist >>

\* visitFunction: LoxFunction(client, self.environment), define its name
visitFunction ==
    /\ ctl.op = "visit" /\ ctl.node.k = "Function"
    /\ funs' = Append(funs, LoxFunction(ctl.node, environment, FALSE))
    /\ envs' = define(envs, environment, ctl.node.name, FunV(Len(funs) + 1))
    /\ ctl' = Ret(ctl.node, NilV)
    /\ UNCHANGED << classes, insts, environment, locals, resolution, scanner, parser, program, stack, output, reports, hist >>

\* visitReturn: evaluate the value if there is one, else raise ReturnUnwinder(None)
visitReturn ==
    /\ ctl.op = "visit" /\ ctl.node.k = "Return"
    /\ IF ctl.node.value.k # "None"
       THEN /\ stack' = Push([f |-> "visitReturn", node |-> ctl.node])
            /\ ctl' = Eval(ctl.node.value)
       ELSE /\ ctl' = Exc("ReturnUnwinder", ctl.node, NilV, "")
            /\ stack' = stack
    /\ UNCHANGED << heap, environment, locals, resolution, scanner, parser, program, output, reports, hist >>

\* visitReturn: raise ReturnUnwinder(return_value)
visitReturnRaise ==
    /\ TopIs("visitReturn") /\ ctl.op = "ret"
    /\ stack' = Pop
    /\ ctl' = Exc("ReturnUnwinder", Top.node, ctl.val, "")
    /\ UNCHANGED << heap, environment, locals, resolution, scanner, parser, program, output, reports, hist >>

\* index of the innermost visitWhile activation on the stack, 0 if none
RECURSIVE InnermostWhile(_, _)
InnermostWhile(st, i) ==
    IF i = 0 THEN 0
    ELSE IF st[i].f = "visitWhile" THEN i
    ELSE InnermostWhile(st, i - 1)

\* visitBreak: self.environment.define(CONTINUE, False)
visitBreak ==
    /\ ctl.op = "visit" /\ ctl.node.k = "Break"
    /\ envs' = define(envs, environment, CONTINUE, BoolV(FALSE))
    /\ ctl' = Ret(ctl.node, NilV)
    /\ LET w == InnermostWhile(stack, Len(stack)) IN
       brk' = [idx |-> w, act |-> IF w = 0 THEN 0 ELSE stack[w].act]
    /\ UNCHANGED << funs, classes, insts, environment, locals, resolution, scanner, parser, program, stack, output, reports,
                    evlog, runlog, last >>

\* visitBlock: context = Environment(self.environment); execute_block(statements, context)
visitBlock ==
    /\ ctl.op = "visit" /\ ctl.node.k = "Block"
    /\ Len(envs) < MaxEnvs
    /\ envs' = Append(envs, NewEnvironment(environment))
    /\ stack' = stack \o << [f |-> "visitBlock", node |-> ctl.node],
                            [f |-> "execute_block", save_context |-> environment,
                             stmts |-> ctl.node.statements, i |-> 0] >>
    /\ environment' = Len(envs) + 1
    /\ ctl' = Step
    /\ UNCHANGED << funs, classes, insts, locals, resolution, scanner, parser, program, output, reports, hist >>

visitBlockReturn ==
    /\ TopIs("visitBlock") /\ ctl.op = "ret"
    /\ stack' = Pop
    /\ ctl' = Ret(Top.node, NilV)
    /\ UNCHANGED << heap, environment, locals, resolution, scanner, parser, program, output, reports, hist >>

\* execute_block: the break flag as the loop over the statements reads it,
\* self.environment.fetch(CONTINUE)
breakFlag(h, e) == fetch(h, e, CONTINUE)

\* execute_block: the loop is left after a statement that cleared the flag
leavesBlock(fr, c, h, e) ==
    \/ fr.i >= Len(fr.stmts)
    \/ c.op = "ret" /\ breakFlag(h, e).exc = "none" /\ ~pytruth(breakFlag(h, e).val)

\* execute_block: for statement in stmts: self.execute(statement)
execute_blockNext ==
    /\ TopIs("execute_block") /\ ctl.op \in {"step", "ret"}
    /\ ctl.op = "ret" => breakFlag(envs, environment).exc = "none"
    /\ ~leavesBlock(Top, ctl, envs, environment)
    /\ stack' = SetTop([Top EXCEPT !.i = @ + 1])
    /\ ctl' = Exec(Top.stmts[Top.i + 1])
    /\ UNCHANGED << heap, environment, locals, resolution, scanner, parser, program, output, reports, hist >>

\* execute_block: finally: self.environment = save_context, on the way out of
\* the loop (end of the list, or the break flag found False)
execute_blockExit ==
    /\ TopIs("execute_block") /\ ctl.op \in {"step", "ret"}
    /\ ctl.op = "ret" => breakFlag(envs, environment).exc = "none"
    /\ leavesBlock(Top, ctl, envs, environment)
    /\ environment' = Top.save_context
    /\ stack' = Pop
    /\ ctl' = Ret(NoNode, NilV)
    /\ UNCHANGED << heap, locals, resolution, scanner, parser, program, output, reports, hist >>

\* a plausible slip: no finally clause, the environment stays as it is
unwoundEnvironmentKept(fr, current) == current

\* what the finally clause leaves in self.environment when an exception unwinds
unwoundEnvironment(fr, current) == fr.save_context

\* execute_block: finally: self.environment = save_context, while an exception
\* raised by a statement unwinds (the fetch of the flag cannot miss: every
\* chain ends in the globals, which define it)
execute_blockFinally ==
    /\ TopIs("execute_block")
    /\ ctl.op = "raise"
    /\ environment' = unwoundEnvironment(Top, environment)
    /\ stack' = Pop
    /\ UNCHANGED << heap, locals, resolution, scanner, parser, program, ctl, output, reports, hist >>

\* visitIf: self.isTruthy(self.evaluate(client.condition))
visitIf ==
    /\ ctl.op = "visit" /\ ctl.node.k = "If"
    /\ stack' = Push([f |-> "visitIf", node |-> ctl.node, pc |-> "condition"])
    /\ ctl' = Eval(ctl.node.condition)
    /\ UNCHANGED << heap, environment, locals, resolution, scanner, parser, program, output, reports, hist >>

\* visitIf: execute thenBranch, or elseBranch if there is one
visitIfBranch ==
    /\ TopIs("visitIf") /\ Top.pc = "condition" /\ ctl.op = "ret"
    /\ IF isTruthy(ctl.val)
       THEN /\ stack' = SetTop([Top EXCEPT !.pc = "branch"])
            /\ ctl' = Exec(Top.node.thenBranch)
       ELSE IF Top.node.elseBranch.k # "None"
       THEN /\ stack' = SetTop([Top EXCEPT !.pc = "branch"])
            /\ ctl' = Exec(Top.node.elseBranch)
       ELSE /\ stack' = Pop
            /\ ctl' = Ret(Top.node, NilV)
    /\ UNCHANGED << heap, environment, locals, resolution, scanner, parser, program, output, reports, hist >>

visitIfReturn ==
    /\ TopIs("visitIf") /\ Top.pc = "branch" /\ ctl.op = "ret"
    /\ stack' = Pop
    /\ ctl' = Ret(Top.node, NilV)
    /\ UNCHANGED << heap, environment, locals, resolution, scanner, parser, program, output, reports, hist >>

\* visitWhile: self.environment.define(CONTINUE, True), then the first test;
\* act is history, the identity of this activation
visitWhile ==
    /\ ctl.op = "visit" /\ ctl.node.k = "While"
    /\ envs' = define(envs, environment, CONTINUE, BoolV(TRUE))
    /\ stack' = Push([f |-> "visitWhile", node |-> ctl.node, pc |-> "condition",
                      act |-> Len(runlog)])
    /\ ctl' = Eval(ctl.node.condition)
    /\ UNCHANGED << funs, classes, insts, environment, locals, resolution, scanner, parser, program, output, reports, hist >>

\* visitWhile: the loop goes on while
\*   self.isTruthy(self.evaluate(client.condition)) and self.environment.fetch(CONTINUE)
whileGoesOn(h, e, condition) ==
    IF ~isTruthy(condition) THEN Ok(h, BoolV(FALSE))
    ELSE fetch(h, e, CONTINUE)

\* a plausible slip: the flag is not forced to True when the loop is left
visitWhileTestFlagKept ==
    /\ TopIs("visitWhile") /\ Top.pc = "condition" /\ ctl.op = "ret"
    /\ LET go == whileGoesOn(envs, environment, ctl.val) IN
       IF go.exc # "none"
       THEN /\ ctl' = Exc(go.exc, NoNode, NilV, "")
            /\ stack' = Pop
       ELSE IF pytruth(go.val)
       THEN /\ stack' = SetTop([Top EXCEPT !.pc = "body"])
            /\ ctl' = Exec(Top.node.body)
       ELSE /\ stack' = Pop
            /\ ctl' = Ret(Top.node, NilV)
    /\ UNCHANGED << heap, environment, locals, resolution, scanner, parser, program, output,
                    reports, hist >>

\* visitWhile: test, then the body or the exit with define(CONTINUE, True)
visitWhileTest ==
    /\ TopIs("visitWhile") /\ Top.pc = "condition" /\ ctl.op = "ret"
    /\ LET go == whileGoesOn(envs, environment, ctl.val) IN
       IF go.exc # "none"
       THEN /\ ctl' = Exc(go.exc, NoNode, NilV, "")
            /\ stack' = Pop
            /\ envs' = envs
       ELSE IF pytruth(go.val)
       THEN /\ stack' = SetTop([Top EXCEPT !.pc = "body"])
            /\ ctl' = Exec(Top.node.body)
            /\ envs' = envs
       ELSE /\ envs' = define(envs, environment, CONTINUE, BoolV(TRUE))
            /\ stack' = Pop
            /\ ctl' = Ret(Top.node, NilV)
    /\ UNCHANGED << funs, classes, insts, environment, locals, resolution, scanner, parser, program, output, reports, hist >>

\* visitWhile: the body returned, evaluate the condition again
visitWhileAgain ==
    /\ TopIs("visitWhile") /\ Top.pc = "body" /\ ctl.op = "ret"
    /\ stack' = SetTop([Top EXCEPT !.pc = "condition"])
    /\ ctl' = Eval(Top.node.condition)
    /\ UNCHANGED << heap, environment, locals, resolution, scanner, parser, program, output, reports, hist >>

\* visitClass from `name_str = client.name.lexeme` on: define the name, push the
\* super context, build the methods and the class, pop, assign the name.
\* The result: the heaps, self.environment and the exception raised, if any.
classDeclared(h, fs, cs, e, node, superclass) ==
    LET h1 == define(h, e, node.name, NilV)
        withSuper == node.superclass.k # "None"
        h2 == IF withSuper
              THEN define(Append(h1, NewEnvironment(e)), Len(h1) + 1, "super", superclass)
              ELSE h1
        e2 == IF withSuper THEN Len(h1) + 1 ELSE e
        n == Len(node.methods)
        fs2 == fs \o [i \in 1..n |->
                        LoxFunction(node.methods[i], e2, node.methods[i].name = InitName)]
        meth_dict == [m \in {node.methods[i].name : i \in 1..n} |->
                        Len(fs) + CHOOSE i \in 1..n :
                            /\ node.methods[i].name = m
                            /\ \A j \in 1..n : node.methods[j].name = m => j <= i]
        klass == LoxClass(node.name, meth_dict,
                          IF withSuper THEN superclass.v ELSE None)
        cs2 == Append(cs, klass)
        e3 == IF withSuper THEN h2[e2].enclosing ELSE e2
        a == assign(h2, e3, PyStr(node.name), ClassV(Len(cs) + 1))
    IN [h |-> a.h, fs |-> fs2, cs |-> cs2, e |-> e3, exc |-> a.exc]

\* visitClass of a class without superclass
visitClass ==
    /\ ctl.op = "visit" /\ ctl.node.k = "Class" /\ ctl.node.superclass.k = "None"
    /\ LET r == classDeclared(envs, funs, classes, environment, ctl.node, NilV) IN
       /\ envs' = r.h /\ funs' = r.fs /\ classes' = r.cs /\ environment' = r.e
       /\ ctl' = IF r.exc = "none" THEN Ret(ctl.node, NilV)
                 ELSE Exc(r.exc, ctl.node, NilV, "")
    /\ UNCHANGED << insts, locals, resolution, scanner, parser, program, stack, output, reports, hist >>

\* visitClass: superclass = self.evaluate(client.superclass)
visitClassSuperclass ==
    /\ ctl.op = "visit" /\ ctl.node.k = "Class" /\ ctl.node.superclass.k # "None"
    /\ stack' = Push([f |-> "visitClass", node |-> ctl.node])
    /\ ctl' = Eval(ctl.node.superclass)
    /\ UNCHANGED << heap, environment, locals, resolution, scanner, parser, program, output, reports, hist >>

\* visitClass: raise EvaluationError(client.superclass.name, "Superclass must be
\* a class.") (only an Expr.Variable has a .name), else the declaration
visitClassDeclare ==
    /\ TopIs("visitClass") /\ ctl.op = "ret"
    /\ Len(envs) < MaxEnvs
    /\ stack' = Pop
    /\ IF ctl.val.t # "class"
       THEN /\ ctl' = IF Top.node.superclass.k = "Variable"
                      THEN Exc("EvaluationError", Top.node.superclass, NilV,
                               "Superclass must be a class.")
                      ELSE Exc("AttributeError", Top.node.superclass, NilV, "")
            /\ UNCHANGED << envs, funs, classes, environment >>
       ELSE LET r == classDeclared(envs, funs, classes, environment, Top.node, ctl.val) IN
            /\ envs' = r.h /\ funs' = r.fs /\ classes' = r.cs /\ environment' = r.e
            /\ ctl' = IF r.exc = "none" THEN Ret(Top.node, NilV)
                      ELSE Exc(r.exc, Top.node, NilV, "")
    /\ UNCHANGED << insts, locals, resolution, scanner, parser, program, output, reports, hist >>

(***************************************************************************)
(* Interpreter.py: expression visitors                                     *)
(***************************************************************************)
\* Interpreter.globals, the first Environment created (Interpreter.py:97)
Globals == 1

\* evaluate(client): client.accept(self)
evaluate ==
    /\ ctl.op = "eval"
    /\ evlog' = Append(evlog, ctl.node.id)
    /\ ctl' = Visit(ctl.node)
    /\ UNCHANGED << heap, environment, locals, resolution, scanner, parser, program, stack, output, reports,
                    runlog, brk, last >>

\* visitLiteral: return client.value
visitLiteral ==
    /\ ctl.op = "visit" /\ ctl.node.k = "Literal"
    /\ ctl' = Ret(ctl.node, ctl.node.value)
    /\ UNCHANGED << heap, environment, locals, resolution, scanner, parser, program, stack, output, reports, hist >>

\* visitGrouping: return self.evaluate(client.expression)
visitGrouping ==
    /\ ctl.op = "visit" /\ ctl.node.k = "Grouping"
    /\ stack' = Push([f |-> "visitGrouping", node |-> ctl.node])
    /\ ctl' = Eval(ctl.node.expression)
    /\ UNCHANGED << heap, environment, locals, resolution, scanner, parser, program, output, reports, hist >>

visitGroupingReturn ==
    /\ TopIs("visitGrouping") /\ ctl.op = "ret"
    /\ stack' = Pop
    /\ ctl' = Ret(Top.node, ctl.val)
    /\ UNCHANGED << heap, environment, locals, resolution, scanner, parser, program, output, reports, hist >>

\* a plausible slip: `and` handled like `or`
shortCircuitsAsOr(operator, lvalue) == isTruthy(lvalue)

\* visitLogical: the two `return lvalue` branches
shortCircuits(operator, lvalue) ==
    IF operator = "OR" THEN isTruthy(lvalue) ELSE ~isTruthy(lvalue)

\* visitLogical: lvalue = self.evaluate(client.left); ev0 is history, the
\* length of evlog when this visit began
visitLogical ==
    /\ ctl.op = "visit" /\ ctl.node.k = "Logical"
    /\ stack' = Push([f |-> "visitLogical", node |-> ctl.node, pc |-> "left",
                      lvalue |-> NilV, ev0 |-> Len(evlog)])
    /\ ctl' = Eval(ctl.node.left)
    /\ UNCHANGED << heap, environment, locals, resolution, scanner, parser, program, output, reports, hist >>

\* visitLogical: return lvalue, or go on to the right operand
visitLogicalLeft ==
    /\ TopIs("visitLogical") /\ Top.pc = "left" /\ ctl.op = "ret"
    /\ IF shortCircuits(Top.node.operator, ctl.val)
       THEN /\ stack' = Pop
            /\ ctl' = Ret(Top.node, ctl.val)
       ELSE /\ stack' = SetTop([Top EXCEPT !.pc = "right", !.lvalue = ctl.val])
            /\ ctl' = Eval(Top.node.right)
    /\ UNCHANGED << heap, environment, locals, resolution, scanner, parser, program, output, reports, hist >>

\* visitLogical: return self.evaluate(client.right)
visitLogicalRight ==
    /\ TopIs("visitLogical") /\ Top.pc = "right" /\ ctl.op = "ret"
    /\ stack' = Pop
    /\ ctl' = Ret(Top.node, ctl.val)
    /\ UNCHANGED << heap, environment, locals, resolution, scanner, parser, program, output, reports, hist >>

\* lookUpVariable(name, client): both branches hand name.lexeme, a str, to the
\* Environment; a NameError of the global branch becomes an EvaluationError
lookUpVariable(h, e, loc, name, client) ==
    IF client.id \notin DOMAIN loc
    THEN LET r == get(h, Globals, PyStr(name)) IN
         IF r.exc = "NameError" THEN Raise(h, "EvaluationError") ELSE r
    ELSE getAt(h, e, loc[client.id], PyStr(name))

\* visitVariable: return self.lookUpVariable(client.name, client)
visitVariable ==
    /\ ctl.op = "visit" /\ ctl.node.k = "Variable"
    /\ LET r == lookUpVariable(envs, environment, locals, ctl.node.name, ctl.node) IN
       ctl' = IF r.exc = "none" THEN Ret(ctl.node, r.val)
              ELSE Exc(r.exc, ctl.node, NilV,
                       IF r.exc = "EvaluationError" THEN "Undefined name" ELSE "")
    /\ UNCHANGED << heap, environment, locals, resolution, scanner, parser, program, stack, output, reports, hist >>

\* visitThis: return self.lookUpVariable(client.keyword, client)
visitThis ==
    /\ ctl.op = "visit" /\ ctl.node.k = "This"
    /\ LET r == lookUpVariable(envs, environment, locals, ctl.node.keyword, ctl.node) IN
       ctl' = IF r.exc = "none" THEN Ret(ctl.node, r.val)
              ELSE Exc(r.exc, ctl.node, NilV,
                       IF r.exc = "EvaluationError" THEN "Undefined name" ELSE "")
    /\ UNCHANGED << heap, environment, locals, resolution, scanner, parser, program, stack, output, reports, hist >>

\* visitAssign: value = self.evaluate(client.value)
visitAssign ==
    /\ ctl.op = "visit" /\ ctl.node.k = "Assign"
    /\ stack' = Push([f |-> "visitAssign", node |-> ctl.node])
    /\ ctl' = Eval(ctl.node.value)
    /\ UNCHANGED << heap, environment, locals, resolution, scanner, parser, program, output, reports, hist >>

\* visitAssign after the value: globals.assign(lexeme, value) and return value,
\* or return environment.assignAt(depth, lexeme, value); lexeme is a str
assigned(h, e, loc, client, value) ==
    IF client.id \notin DOMAIN loc
    THEN LET r == assign(h, Globals, PyStr(client.name), value) IN
         IF r.exc = "NameError" THEN Raise(h, "EvaluationError")
         ELSE IF r.exc = "none" THEN Ok(r.h, value)
         ELSE r
    ELSE assignAt(h, e, loc[client.id], PyStr(client.name), value)

visitAssignStore ==
    /\ TopIs("visitAssign") /\ ctl.op = "ret"
    /\ LET r == assigned(envs, environment, locals, Top.node, ctl.val) IN
       /\ envs' = r.h
       /\ ctl' = IF r.exc = "none" THEN Ret(Top.node, r.val)
                 ELSE Exc(r.exc, Top.node, NilV,
                          IF r.exc = "EvaluationError" THEN "Undefined name" ELSE "")
    /\ stack' = Pop
    /\ UNCHANGED << funs, classes, insts, environment, locals, resolution, scanner, parser, program, output, reports, hist >>

(***************************************************************************)
(* Calls: Interpreter.visitCall, LoxFunction.call / bind, LoxClass.call,   *)
(* builtinClock.call, Interpreter.visitGet with LoxInstance.get            *)
(***************************************************************************)
TypeErrorMsg == "Only functions and classes can be called."
ArityErrorMsg == "Expected arity() arguments but got len(params)."

\* a plausible slip: no test of the callee before the arguments
calleeRejectedNever(callee) == FALSE

\* visitCall: if not isinstance(callee, LoxCallable)
calleeRejected(callee) == ~isCallable(callee)

\* visitCall: callee = self.evaluate(client.callee); ev0 and is0 are history,
\* the length of evlog when this visit began and of insts when callee.call is made
visitCall ==
    /\ ctl.op = "visit" /\ ctl.node.k = "Call"
    /\ stack' = Push([f |-> "visitCall", node |-> ctl.node, pc |-> "callee",
                      callee |-> NilV, params |-> << >>,
                      ev0 |-> Len(evlog), is0 |-> 0])
    /\ ctl' = Eval(ctl.node.callee)
    /\ UNCHANGED << heap, environment, locals, resolution, scanner, parser, program, output, reports, hist >>

\* visitCall: raise "Only functions and classes can be called.", or params = []
visitCallCallee ==
    /\ TopIs("visitCall") /\ Top.pc = "callee" /\ ctl.op = "ret"
    /\ IF calleeRejected(ctl.val)
       THEN /\ stack' = Pop
            /\ ctl' = Exc("EvaluationError", Top.node, NilV, TypeErrorMsg)
       ELSE /\ stack' = SetTop([Top EXCEPT !.pc = "arguments", !.callee = ctl.val])
            /\ ctl' = Step
    /\ UNCHANGED << heap, environment, locals, resolution, scanner, parser, program, output, reports, hist >>

\* visitCall: for argument in client.arguments: params.append(self.evaluate(argument))
visitCallArguments ==
    /\ TopIs("visitCall") /\ Top.pc = "arguments" /\ ctl.op \in {"step", "ret"}
    /\ LET params == IF ctl.op = "ret" THEN Append(Top.params, ctl.val) ELSE Top.params IN
       IF Len(params) < Len(Top.node.arguments)
       THEN /\ stack' = SetTop([Top EXCEPT !.params = params])
            /\ ctl' = Eval(Top.node.arguments[Len(params) + 1])
       ELSE /\ stack' = SetTop([Top EXCEPT !.params = params, !.pc = "arity"])
            /\ ctl' = Step
    /\ UNCHANGED << heap, environment, locals, resolution, scanner, parser, program, output, reports, hist >>

\* visitCall: if callee.arity() != len(params): raise; return callee.call(self, params)
visitCallArity ==
    /\ TopIs("visitCall") /\ Top.pc = "arity" /\ ctl.op = "step"
    /\ IF arity(funs, classes, Top.callee) # Len(Top.params)
       THEN /\ stack' = Pop
            /\ ctl' = Exc("EvaluationError", Top.node, NilV, ArityErrorMsg)
       ELSE /\ stack' = SetTop([Top EXCEPT !.pc = "call", !.is0 = Len(insts)])
            /\ ctl' = Ctl("call", NoNode, Top.callee)
    /\ UNCHANGED << heap, environment, locals, resolution, scanner, parser, program, output, reports, hist >>

visitCallReturn ==
    /\ TopIs("visitCall") /\ Top.pc = "call" /\ ctl.op = "ret"
    /\ stack' = Pop
    /\ ctl' = Ret(Top.node, ctl.val)
    /\ UNCHANGED << heap, environment, locals, resolution, scanner, parser, program, output, reports, hist >>

\* the clock readings of the model, time.time()
Times == {7}

\* builtinClock.call: return time.time()
builtinClockCall ==
    /\ ctl.op = "call" /\ ctl.val.t = "clock"
    /\ \E now \in Times : ctl' = Ret(NoNode, NumV(now))
    /\ UNCHANGED << heap, environment, locals, resolution, scanner, parser, program, stack, output, reports, hist >>

\* LoxFunction.call: for (param, arg) in zip(params, args): environment.define(param.lexeme, arg)
RECURSIVE defineParams(_, _, _, _, _)
defineParams(h, e, params, args, i) ==
    IF i > Len(params) \/ i > Len(args) THEN h
    ELSE defineParams(define(h, e, params[i], args[i]), e, params, args, i + 1)

\* LoxFunction.call: environment = Environment(self.closure), the parameters
\* defined, then interpreter.execute_block(self.declaration.body, environment)
LoxFunctionCall ==
    /\ ctl.op = "call" /\ ctl.val.t = "fun"
    /\ Len(envs) < MaxEnvs
    /\ LET fn == funs[ctl.val.v]
           e == Len(envs) + 1
       IN /\ envs' = defineParams(Append(envs, NewEnvironment(fn.closure)), e,
                                  fn.declaration.params, Top.params, 1)
          /\ stack' = stack \o << [f |-> "LoxFunction.call", fn |-> ctl.val.v,
                                   args |-> Top.params, env |-> e],
                                  [f |-> "execute_block", save_context |-> environment,
                                   stmts |-> fn.declaration.body, i |-> 0] >>
          /\ environment' = e
    /\ ctl' = Step
    /\ UNCHANGED << funs, classes, insts, locals, resolution, scanner, parser, program, output, reports, hist >>

\* a plausible slip: the initializer returning what its body returned
returnValueOfBody(fn, h, returned) == Ok(h, returned)

\* LoxFunction.call:
\*   return_value = self.closure.fetch("this") if self.isInitializer else <returned>
returnValue(fn, h, returned) ==
    IF fn.isInitializer THEN fetch(h, fn.closure, "this") ELSE Ok(h, returned)

\* LoxFunction.call: the body ended, or except ReturnUnwinder as RW
LoxFunctionReturn ==
    /\ TopIs("LoxFunction.call")
    /\ \/ ctl.op = "ret"
       \/ ctl.op = "raise" /\ ctl.exc = "ReturnUnwinder"
    /\ LET r == returnValue(funs[Top.fn], envs,
                            IF ctl.op = "ret" THEN NilV ELSE ctl.val) IN
       ctl' = IF r.exc = "none" THEN Ret(NoNode, r.val) ELSE Exc(r.exc, NoNode, NilV, "")
    /\ stack' = Pop
    /\ UNCHANGED << heap, environment, locals, resolution, scanner, parser, program, output, reports, hist >>

\* LoxFunction.bind(instance): the heaps with the new Environment and LoxFunction
bind(h, fs, fn, instance) ==
    [h |-> define(Append(h, NewEnvironment(fs[fn].closure)), Len(h) + 1, "this", instance),
     fs |-> Append(fs, LoxFunction(fs[fn].declaration, Len(h) + 1, fs[fn].isInitializer))]

\* LoxClass.call: instance = LoxInstance(self); the initializer, if declared, is
\* bound to it and called
LoxClassCall ==
    /\ ctl.op = "call" /\ ctl.val.t = "class"
    /\ insts' = Append(insts, [klass |-> ctl.val.v, fields |-> << >>])
    /\ LET initializer == findMethod(classes, ctl.val.v, InitName) IN
       IF initializer # None
       THEN /\ Len(envs) < MaxEnvs
            /\ LET b == bind(envs, funs, initializer, InstV(Len(insts) + 1)) IN
               /\ envs' = b.h
               /\ funs' = b.fs
            /\ stack' = Push([f |-> "LoxClass.call", instance |-> Len(insts) + 1,
                              params |-> Top.params])
            /\ ctl' = Ctl("call", NoNode, FunV(Len(funs) + 1))
       ELSE /\ ctl' = Ret(NoNode, InstV(Len(insts) + 1))
            /\ UNCHANGED << envs, funs, stack >>
    /\ UNCHANGED << classes, environment, locals, resolution, scanner, parser, program, output, reports, hist >>

\* LoxClass.call: return instance
LoxClassReturn ==
    /\ TopIs("LoxClass.call") /\ ctl.op = "ret"
    /\ stack' = Pop
    /\ ctl' = Ret(NoNode, InstV(Top.instance))
    /\ UNCHANGED << heap, environment, locals, resolution, scanner, parser, program, output, reports, hist >>

\* visitGet: source = self.evaluate(client.object)
visitGet ==
    /\ ctl.op = "visit" /\ ctl.node.k = "Get"
    /\ stack' = Push([f |-> "visitGet", node |-> ctl.node])
    /\ ctl' = Eval(ctl.node.object)
    /\ UNCHANGED << heap, environment, locals, resolution, scanner, parser, program, output, reports, hist >>

\* visitGet: source.get(client.name) of a LoxInstance (a field, else a method
\* bound to the instance, else NameError), turned into the EvaluationErrors
visitGetProperty ==
    /\ TopIs("visitGet") /\ ctl.op = "ret"
    /\ stack' = Pop
    /\ IF ctl.val.t # "inst"
       THEN /\ ctl' = Exc("EvaluationError", Top.node, NilV, "Only instances have properties")
            /\ UNCHANGED << envs, funs >>
       ELSE LET name_str == Top.node.name
                method == findMethod(classes, insts[ctl.val.v].klass, name_str)
            IN IF name_str \in DOMAIN insts[ctl.val.v].fields
               THEN /\ ctl' = Ret(Top.node, insts[ctl.val.v].fields[name_str])
                    /\ UNCHANGED << envs, funs >>
               ELSE IF method # None
               THEN /\ Len(envs) < MaxEnvs
                    /\ LET b == bind(envs, funs, method, ctl.val) IN
                       /\ envs' = b.h
                       /\ funs' = b.fs
                    /\ ctl' = Ret(Top.node, FunV(Len(funs) + 1))
               ELSE /\ ctl' = Exc("EvaluationError", Top.node, NilV, "Undefined property")
                    /\ UNCHANGED << envs, funs >>
    /\ UNCHANGED << classes, insts, environment, locals, resolution, scanner, parser, program, output, reports, hist >>

\* visitSet: target = self.evaluate(client.object)
visitSet ==
    /\ ctl.op = "visit" /\ ctl.node.k = "Set"
    /\ stack' = Push([f |-> "visitSet", node |-> ctl.node, pc |-> "object", target |-> NilV])
    /\ ctl' = Eval(ctl.node.object)
    /\ UNCHANGED << heap, environment, locals, resolution, scanner, parser, program, output, reports, hist >>

\* visitSet: only a LoxInstance may have fields; value = self.evaluate(client.value)
visitSetObject ==
    /\ TopIs("visitSet") /\ Top.pc = "object" /\ ctl.op = "ret"
    /\ IF ctl.val.t # "inst"
       THEN /\ stack' = Pop
            /\ ctl' = Exc("EvaluationError", Top.node, NilV, "Only instances may have fields")
       ELSE /\ stack' = SetTop([Top EXCEPT !.pc = "value", !.target = ctl.val])
            /\ ctl' = Eval(Top.node.value)
    /\ UNCHANGED << heap, environment, locals, resolution, scanner, parser, program, output, reports, hist >>

\* visitSet: target.set(client.name, value), self.fields[name.lexeme] = value;
\* return value
visitSetValue ==
    /\ TopIs("visitSet") /\ Top.pc = "value" /\ ctl.op = "ret"
    /\ LET i == Top.target.v
           fields == insts[i].fields
       IN insts' = [insts EXCEPT ![i].fields =
                       [n \in (DOMAIN fields) \cup {Top.node.name} |->
                           IF n = Top.node.name THEN ctl.val ELSE fields[n]]]
    /\ stack' = Pop
    /\ ctl' = Ret(Top.node, ctl.val)
    /\ UNCHANGED << envs, funs, classes, environment, locals, resolution, scanner, parser, program, output, reports, hist >>

\* visitSuper: depth = self.locals[client] (KeyError without an entry), the
\* class from getAt(depth, "super") and the instance from getAt(depth-1, "this"),
\* both called with a str, then superclass.findMethod(lexeme) bound to the
\* instance, or the EvaluationError
superMethod(h, fs, cs, e, loc, client) ==
    IF client.id \notin DOMAIN loc THEN [exc |-> "KeyError", m |-> None, that |-> NilV]
    ELSE LET depth == loc[client.id]
             superclass == getAt(h, e, depth, PyStr("super"))
             that == getAt(h, e, depth - 1, PyStr("this"))
         IN IF superclass.exc # "none" THEN [exc |-> superclass.exc, m |-> None, that |-> NilV]
            ELSE IF that.exc # "none" THEN [exc |-> that.exc, m |-> None, that |-> NilV]
            ELSE IF superclass.val.t # "class"
            THEN [exc |-> "AttributeError", m |-> None, that |-> NilV]
            ELSE LET method == findMethod(cs, superclass.val.v, client.method) IN
                 IF method # None THEN [exc |-> "none", m |-> method, that |-> that.val]
                 ELSE [exc |-> "EvaluationError", m |-> None, that |-> NilV]

visitSuper ==
    /\ ctl.op = "visit" /\ ctl.node.k = "Super"
    /\ LET r == superMethod(envs, funs, classes, environment, locals, ctl.node) IN
       IF r.exc = "none"
       THEN /\ Len(envs) < MaxEnvs
            /\ LET b == bind(envs, funs, r.m, r.that) IN
               /\ envs' = b.h
               /\ funs' = b.fs
            /\ ctl' = Ret(ctl.node, FunV(Len(funs) + 1))
       ELSE /\ ctl' = Exc(r.exc, ctl.node, NilV,
                          IF r.exc = "EvaluationError" THEN "Undefined property" ELSE "")
            /\ UNCHANGED << envs, funs >>
    /\ UNCHANGED << classes, insts, environment, locals, resolution, scanner, parser, program, stack, output, reports, hist >>

(***************************************************************************)
(* Interpreter.py: visitBinary                                             *)
(***************************************************************************)
\* the number a Python bool or float compares and computes as (True is 1)
pynumber(v) == IF v.t = "bool" THEN (IF v.v THEN 1 ELSE 0) ELSE v.v

\* Interpreter.isEqual: return lhs == rhs, Python's ==: bool is a subclass of
\* int and compares with a float by value, str by contents, None and objects
\* without __eq__ by identity
isEqual(lhs, rhs) ==
    IF lhs.t \in {"bool", "num"} /\ rhs.t \in {"bool", "num"}
    THEN pynumber(lhs) = pynumber(rhs)
    ELSE lhs.t = rhs.t /\ lhs.v = rhs.v

\* the value of one decimal digit character, -1 for any other character
DigitValue(c) ==
    IF \E d \in 0..9 : Digit(d) = c THEN CHOOSE d \in 0..9 : Digit(d) = c ELSE 0 - 1

RECURSIVE DigitsValue(_)
DigitsValue(s) ==
    IF Len(s) = 0 THEN 0
    ELSE 10 * DigitsValue(SubSeq(s, 1, Len(s) - 1)) + DigitValue(s[Len(s)])

\* float(x): a float or bool converts, a str is parsed (here: a str of decimal
\* digits is a numeral, any other str raises ValueError), None or any other
\* object raises TypeError
pyfloat(x) ==
    CASE x.t \in {"num", "bool"} -> [exc |-> "none", val |-> pynumber(x)]
      [] x.t = "str" ->
            IF Len(x.v) > 0 /\ \A i \in 1..Len(x.v) : DigitValue(x.v[i]) >= 0
            THEN [exc |-> "none", val |-> DigitsValue(x.v)]
            ELSE [exc |-> "ValueError", val |-> 0]
      [] OTHER -> [exc |-> "TypeError", val |-> 0]

\* Interpreter.lambdic[op](x, y) on floats; the quotients taken here are exact
lambdic(op, x, y) ==
    CASE op = "PLUS" -> [exc |-> "none", val |-> NumV(x + y)]
      [] op = "MINUS" -> [exc |-> "none", val |-> NumV(x - y)]
      [] op = "STAR" -> [exc |-> "none", val |-> NumV(x * y)]
      [] op = "SLASH" -> IF y = 0 THEN [exc |-> "ZeroDivisionError", val |-> NilV]
                         ELSE [exc |-> "none", val |-> NumV(x \div y)]
      [] op = "GREATER" -> [exc |-> "none", val |-> BoolV(x > y)]
      [] op = "GREATER_EQUAL" -> [exc |-> "none", val |-> BoolV(x >= y)]
      [] op = "LESS" -> [exc |-> "none", val |-> BoolV(x < y)]
      [] OTHER -> [exc |-> "none", val |-> BoolV(x <= y)]

\* a plausible slip: no except clause for ZeroDivisionError
numericBinaryUncaught(op, lhs, rhs) ==
    LET x == pyfloat(lhs)
        y == pyfloat(rhs)
    IN IF x.exc = "TypeError" THEN [exc |-> "TypeError", val |-> NilV, msg |-> ""]
       ELSE IF x.exc = "ValueError"
       THEN [exc |-> "EvaluationError", val |-> NilV, msg |-> "Numeric operands required"]
       ELSE IF y.exc = "TypeError" THEN [exc |-> "TypeError", val |-> NilV, msg |-> ""]
       ELSE IF y.exc = "ValueError"
       THEN [exc |-> "EvaluationError", val |-> NilV, msg |-> "Numeric operands required"]
       ELSE LET r == lambdic(op, x.val, y.val) IN
            [exc |-> r.exc, val |-> r.val, msg |-> ""]

\* visitBinary: try: return lambdic[op](float(lhs), float(rhs)) with the
\* except clauses for ValueError and ZeroDivisionError
numericBinary(op, lhs, rhs) ==
    LET x == pyfloat(lhs)
        y == pyfloat(rhs)
    IN IF x.exc = "TypeError" THEN [exc |-> "TypeError", val |-> NilV, msg |-> ""]
       ELSE IF x.exc = "ValueError"
       THEN [exc |-> "EvaluationError", val |-> NilV, msg |-> "Numeric operands required"]
       ELSE IF y.exc = "TypeError" THEN [exc |-> "TypeError", val |-> NilV, msg |-> ""]
       ELSE IF y.exc = "ValueError"
       THEN [exc |-> "EvaluationError", val |-> NilV, msg |-> "Numeric operands required"]
       ELSE LET r == lambdic(op, x.val, y.val) IN
            IF r.exc = "ZeroDivisionError"
            THEN [exc |-> "EvaluationError", val |-> NilV, msg |-> "Cannot divide by zero"]
            ELSE [exc |-> "none", val |-> r.val, msg |-> ""]

\* visitBinary after both operands: the equality operators, the overloaded
\* PLUS, then the operators of lambdic
binaryResult(op, lhs, rhs) ==
    IF op = "EQUAL_EQUAL" THEN [exc |-> "none", val |-> BoolV(isEqual(lhs, rhs)), msg |-> ""]
    ELSE IF op = "BANG_EQUAL"
    THEN [exc |-> "none", val |-> BoolV(~isEqual(lhs, rhs)), msg |-> ""]
    ELSE IF op = "PLUS" /\ lhs.t = "str" /\ rhs.t = "str"
    THEN [exc |-> "none", val |-> StrV(lhs.v \o rhs.v), msg |-> ""]
    ELSE IF op = "PLUS" /\ lhs.t # rhs.t
    THEN [exc |-> "EvaluationError", val |-> NilV,
          msg |-> "Both operands must have the same type"]
    ELSE numericBinary(op, lhs, rhs)

\* visitBinary: lhs = self.evaluate(client.left)
visitBinary ==
    /\ ctl.op = "visit" /\ ctl.node.k = "Binary"
    /\ stack' = Push([f |-> "visitBinary", node |-> ctl.node, pc |-> "left",
                      lhs |-> NilV])
    /\ ctl' = Eval(ctl.node.left)
    /\ UNCHANGED << heap, environment, locals, resolution, scanner, parser, program, output, reports, hist >>

\* visitBinary: rhs = self.evaluate(client.right)
visitBinaryLeft ==
    /\ TopIs("visitBinary") /\ Top.pc = "left" /\ ctl.op = "ret"
    /\ stack' = SetTop([Top EXCEPT !.pc = "right", !.lhs = ctl.val])
    /\ ctl' = Eval(Top.node.right)
    /\ UNCHANGED << heap, environment, locals, resolution, scanner, parser, program, output, reports, hist >>

\* visitBinary: the result, or the exception; an EvaluationError carries
\* client.operator, the token of this Binary node
visitBinaryRight ==
    /\ TopIs("visitBinary") /\ Top.pc = "right" /\ ctl.op = "ret"
    /\ stack' = Pop
    /\ LET r == binaryResult(Top.node.operator, Top.lhs, ctl.val) IN
       ctl' = IF r.exc = "none" THEN Ret(Top.node, r.val)
              ELSE Exc(r.exc, Top.node, NilV, r.msg)
    /\ UNCHANGED << heap, environment, locals, resolution, scanner, parser, program, output, reports, hist >>

\* visitUnary after the operand: -float(rhs) with the except clause for
\* ValueError, or not isTruthy(rhs)
unaryResult(operator, rhs) ==
    IF operator = "MINUS"
    THEN LET x == pyfloat(rhs) IN
         IF x.exc = "ValueError"
         THEN [exc |-> "EvaluationError", val |-> NilV, msg |-> "A numeric value is required"]
         ELSE IF x.exc # "none" THEN [exc |-> x.exc, val |-> NilV, msg |-> ""]
         ELSE [exc |-> "none", val |-> NumV(0 - x.val), msg |-> ""]
    ELSE [exc |-> "none", val |-> BoolV(~isTruthy(rhs)), msg |-> ""]

\* visitUnary: rhs = self.evaluate(client.right)
visitUnary ==
    /\ ctl.op = "visit" /\ ctl.node.k = "Unary"
    /\ stack' = Push([f |-> "visitUnary", node |-> ctl.node])
    /\ ctl' = Eval(ctl.node.right)
    /\ UNCHANGED << heap, environment, locals, resolution, scanner, parser, program, output, reports, hist >>

\* visitUnary: the result, or the exception
visitUnaryRight ==
    /\ TopIs("visitUnary") /\ ctl.op = "ret"
    /\ stack' = Pop
    /\ LET r == unaryResult(Top.node.operator, ctl.val) IN
       ctl' = IF r.exc = "none" THEN Ret(Top.node, r.val)
              ELSE Exc(r.exc, Top.node, NilV, r.msg)
    /\ UNCHANGED << heap, environment, locals, resolution, scanner, parser, program, output, reports, hist >>

(***************************************************************************)
(* Resolver.py.  The state of a Resolver is a record                       *)
(*   scopes            the stack of dicts name -> False / line / -1        *)
(*   locals            what it told the interpreter (Interpreter.resolve)  *)
(*   current_function  FunctionType                                        *)
(*   err               "none", or the exception that ended the resolution  *)
(*   marks             history: current_function and len(scopes) at every  *)
(*                     accept() so far                                     *)
(* Python's False is 0 here (False == 0 in Python).                        *)
(***************************************************************************)
NewResolver == [scopes |-> << >>, locals |-> << >>, current_function |-> "NOFUN",
                err |-> "none", marks |-> << >>]

\* beginScope: self.scopes.append(dict())
beginScope(st) ==
    IF st.err # "none" THEN st
    ELSE [st EXCEPT !.scopes = Append(@, << >>)]

\* a plausible slip: the scope is popped only after the names were checked
endScopeCheckedFirst(st) ==
    IF st.err # "none" THEN st
    ELSE LET dying_scope == st.scopes[Len(st.scopes)] IN
         IF \E name \in DOMAIN dying_scope : dying_scope[name] >= 1
         THEN [st EXCEPT !.err = "never referenced"]
         ELSE st

\* endScope: pop the scope; a name holding a line number was never referenced
endScope(st) ==
    IF st.err # "none" THEN st
    ELSE LET dying_scope == st.scopes[Len(st.scopes)]
             popped == [st EXCEPT !.scopes = SubSeq(@, 1, Len(@) - 1)]
         IN IF \E name \in DOMAIN dying_scope : dying_scope[name] >= 1
            THEN [popped EXCEPT !.err = "never referenced"]
            ELSE popped

\* dict[name] = value in the innermost scope
setInTop(st, name, value) ==
    LET n == Len(st.scopes)
        scope == st.scopes[n]
    IN [st EXCEPT !.scopes[n] = [x \in (DOMAIN scope) \cup {name} |->
                                    IF x = name THEN value ELSE scope[x]]]

\* a plausible slip: the name is usable as soon as it is declared
declareUsable(st, name) ==
    IF st.err # "none" \/ st.scopes = << >> THEN st
    ELSE IF name \in DOMAIN st.scopes[Len(st.scopes)]
    THEN [st EXCEPT !.err = "already declared"]
    ELSE setInTop(st, name, 1)

\* declare(item)
declare(st, name) ==
    IF st.err # "none" \/ st.scopes = << >> THEN st
    ELSE IF name \in DOMAIN st.scopes[Len(st.scopes)]
    THEN [st EXCEPT !.err = "already declared"]
    ELSE setInTop(st, name, 0)

\* define(item): self.scopes[-1][item.lexeme] = item.line
defineInScope(st, name, line) ==
    IF st.err # "none" \/ st.scopes = << >> THEN st
    ELSE setInTop(st, name, line)

\* a plausible slip: the depth counted from the wrong end
depthOfScopeOffByOne(n, index) == n - index

\* resolveLocal: len(self.scopes) - 1 - index
depthOfScope(n, index) == n - 1 - index

\* resolveLocal(expr, name): the innermost scope holding the name gives the depth
resolveLocal(st, expr, name) ==
    IF st.err # "none" THEN st
    ELSE LET found == {index \in 1..Len(st.scopes) : name \in DOMAIN st.scopes[index]} IN
         IF found = {} THEN st
         ELSE LET index == CHOOSE i \in found : \A j \in found : j <= i IN
              [st EXCEPT !.locals = [x \in (DOMAIN st.locals) \cup {expr.id} |->
                                        IF x = expr.id
                                        THEN depthOfScope(Len(st.scopes), index - 1)
                                        ELSE st.locals[x]],
                         !.scopes[index] = [@ EXCEPT ![name] = 0 - 1]]

RECURSIVE accept(_, _)
RECURSIVE resolve_statements(_, _, _)
RECURSIVE resolveParams(_, _, _)

\* resolveFunDecl: for param in client.params: self.define(param)
resolveParams(st, client, i) ==
    IF i > Len(client.params) THEN st
    ELSE resolveParams(defineInScope(st, client.params[i], client.line), client, i + 1)

\* a plausible slip: leaving a function declaration always puts NOFUN back
resolveFunDeclResetting(st, client, funtype) ==
    IF st.err # "none" THEN st
    ELSE LET inside == resolve_statements(
                          resolveParams(beginScope([st EXCEPT !.current_function = funtype]),
                                        client, 1),
                          client.body, 1)
             closed == endScope(inside)
         IN IF closed.err # "none" THEN closed
            ELSE [closed EXCEPT !.current_function = "NOFUN"]

\* resolveFunDecl(client, funtype)
resolveFunDecl(st, client, funtype) ==
    IF st.err # "none" THEN st
    ELSE LET inside == resolve_statements(
                          resolveParams(beginScope([st EXCEPT !.current_function = funtype]),
                                        client, 1),
                          client.body, 1)
             closed == endScope(inside)
         IN IF closed.err # "none" THEN closed
            ELSE [closed EXCEPT !.current_function = st.current_function]

\* resolve_statements: for statement in statements: statement.accept(self)
resolve_statements(st, statements, i) ==
    IF i > Len(statements) \/ st.err # "none" THEN st
    ELSE resolve_statements(accept(st, statements[i]), statements, i + 1)

\* node.accept(resolver): the visit methods of Resolver, `pass` of GenericVisitor
\* for the node classes it does not define
accept(s0, node) ==
    IF s0.err # "none" THEN s0
    ELSE LET st == [s0 EXCEPT !.marks = Append(@, [id |-> node.id,
                                          current_function |-> s0.current_function,
                                          depth |-> Len(s0.scopes)])]
    IN   CASE node.k = "Block" ->
                endScope(resolve_statements(beginScope(st), node.statements, 1))
           [] node.k = "Var" ->
                LET declared == declare(st, node.name) IN
                defineInScope(IF node.initializer.k # "None"
                              THEN accept(declared, node.initializer)
                              ELSE declared,
                              node.name, node.line)
           [] node.k = "Function" ->
                resolveFunDecl(defineInScope(declare(st, node.name), node.name, node.line),
                               node, "FUNCTION")
           [] node.k = "If" ->
                LET branch == accept(accept(st, node.condition), node.thenBranch) IN
                IF node.elseBranch.k # "None" THEN accept(branch, node.elseBranch)
                ELSE branch
           [] node.k = "While" -> accept(accept(st, node.condition), node.body)
           [] node.k \in {"Expression", "Print", "Grouping"} -> accept(st, node.expression)
           [] node.k = "Return" ->
                IF st.current_function = "NOFUN"
                THEN [st EXCEPT !.err = "Cannot return from top-level code."]
                ELSE IF node.value.k = "None"
                THEN [st EXCEPT !.err = "AttributeError"]
                ELSE accept(st, node.value)
           [] node.k = "Variable" ->
                IF /\ st.scopes # << >>
                   /\ node.name \in DOMAIN st.scopes[Len(st.scopes)]
                   /\ st.scopes[Len(st.scopes)][node.name] = 0
                THEN [st EXCEPT !.err = "Cannot refer to local variable in its own initializer"]
                ELSE resolveLocal(st, node, node.name)
           [] node.k = "Assign" -> resolveLocal(accept(st, node.value), node, node.name)
           [] node.k = "Call" ->
                resolve_statements(accept(st, node.callee), node.arguments, 1)
           [] node.k \in {"Logical", "Binary"} -> accept(accept(st, node.left), node.right)
           [] node.k = "Unary" -> accept(st, node.right)
           [] OTHER -> st

\* Resolver(interpreter, error_report).resolve(statements)
resolve(statements) == resolve_statements(NewResolver, statements, 1)

(***************************************************************************)
(* Constructors of the AST nodes (Stmt.py, Expr.py, make_ASTs.py).  A      *)
(* Token field holds the lexeme; line is the line of the name Token.       *)
(***************************************************************************)
Literal(id, value) == [k |-> "Literal", id |-> id, value |-> value]
Grouping(id, expression) == [k |-> "Grouping", id |-> id, expression |-> expression]
Logical(id, left, operator, right) ==
    [k |-> "Logical", id |-> id, left |-> left, operator |-> operator, right |-> right]
Variable(id, name) == [k |-> "Variable", id |-> id, name |-> name]
Assign(id, name, value) == [k |-> "Assign", id |-> id, name |-> name, value |-> value]
Call(id, callee, arguments) ==
    [k |-> "Call", id |-> id, callee |-> callee, arguments |-> arguments]
Get(id, object, name) == [k |-> "Get", id |-> id, object |-> object, name |-> name]
Set(id, object, name, value) ==
    [k |-> "Set", id |-> id, object |-> object, name |-> name, value |-> value]
Super(id, method) == [k |-> "Super", id |-> id, method |-> method]
This(id) == [k |-> "This", id |-> id, keyword |-> "this"]
Unary(id, operator, right) == [k |-> "Unary", id |-> id, operator |-> operator, right |-> right]
Binary(id, left, operator, right) ==
    [k |-> "Binary", id |-> id, left |-> left, operator |-> operator, right |-> right]
Expression(id, expression) == [k |-> "Expression", id |-> id, expression |-> expression]
PrintStmt(id, expression) == [k |-> "Print", id |-> id, expression |-> expression]
Var(id, name, initializer) ==
    [k |-> "Var", id |-> id, name |-> name, initializer |-> initializer, line |-> 1]
Block(id, statements) == [k |-> "Block", id |-> id, statements |-> statements]
If(id, condition, thenBranch, elseBranch) ==
    [k |-> "If", id |-> id, condition |-> condition, thenBranch |-> thenBranch,
     elseBranch |-> elseBranch]
While(id, condition, body) ==
    [k |-> "While", id |-> id, condition |-> condition, body |-> body]
Break(id) == [k |-> "Break", id |-> id]
Function(id, name, params, body) ==
    [k |-> "Function", id |-> id, name |-> name, params |-> params, body |-> body,
     line |-> 1]
Return(id, value) == [k |-> "Return", id |-> id, value |-> value]
Class(id, name, superclass, methods) ==
    [k |-> "Class", id |-> id, name |-> name, superclass |-> superclass,
     methods |-> methods]

(***************************************************************************)
(* Parser.py.  A token is [type, lexeme, literal] and a token list ends    *)
(* with the EOF token.  The state of a Parser is a record                  *)
(*   tokens, current   the list and the index of the next token (from 1)   *)
(*   results           the list parse() is building                        *)
(*   reports           the calls of its error_report(token, message); a    *)
(*                     token is named by its index in tokens               *)
(*   exc, etoken, emessage   "none", or the ParseError that is propagating *)
(*   val               what the last method returned                       *)
(*   phase             "absent", "parsing", "parsed", then what run_lox    *)
(*                     did with the result                                 *)
(*   nid               history: the identity of the next node object       *)
(*   syncs             history: [from, to] of current for each synchronize *)
(*   source            history: the source the tokens were scanned from    *)
(***************************************************************************)
Max_Args == 16

LoxToken(type, lexeme, literal) == [type |-> type, lexeme |-> lexeme, literal |-> literal]

\* Parser(tokens, error_report)
NewParser(tokens) ==
    [tokens |-> tokens, current |-> 1, results |-> << >>, reports |-> << >>,
     exc |-> "none", etoken |-> 0, emessage |-> "", val |-> NoNode,
     phase |-> "parsing", nid |-> 1, syncs |-> << >>, source |-> << >>]

\* no Parser: the program was built by the host
NoParser == [NewParser(<< >>) EXCEPT !.phase = "absent"]

\* the method returned a freshly made node
Made(p, node) == [p EXCEPT !.val = node, !.nid = @ + 1]

\* U1, U2: the current token and the last consumed one
peek(p) == p.tokens[p.current]
previous(p) == p.tokens[IF p.current = 1 THEN Len(p.tokens) ELSE p.current - 1]

\* U3, U4
isAtEnd(p) == peek(p).type = "EOF"
check(p, ttype) == IF isAtEnd(p) THEN FALSE ELSE ttype = peek(p).type

\* U5: advance() returns previous()
advance(p) ==
    LET q == IF ~isAtEnd(p) THEN [p EXCEPT !.current = @ + 1] ELSE p
    IN [q EXCEPT !.val = previous(q)]

\* U6: match(*types)
match(p, types) ==
    IF \E ttype \in types : check(p, ttype) THEN [advance(p) EXCEPT !.val = TRUE]
    ELSE [p EXCEPT !.val = FALSE]

\* U8: raise Parser.ParseError(a_token, message)
error(p, a_token, message) ==
    [p EXCEPT !.exc = "ParseError", !.etoken = a_token, !.emessage = message]

\* U7: consume(ttype, message)
consume(p, ttype, message) ==
    IF check(p, ttype) THEN advance(p) ELSE error(p, p.current, message)

\* the rest of a method after a call: the ParseError of the call, when it
\* raised one, ends the method
Then(r, rest(_)) == IF r.exc # "none" THEN r ELSE rest(r)

\* the outcome d of one iteration of a loop that began in state q.  The
\* iteration reads nothing but the tokens and the index: one that returns with
\* the index where it was is repeated for ever, and the loop is ended here as
\* "Stalled"
iterated(q, d) ==
    IF d.exc = "none" /\ d.current <= q.current THEN [d EXCEPT !.exc = "Stalled"] ELSE d

\* a plausible slip: skip to the end of the statement whatever comes first
synchronizePastSemicolon(p) ==
    LET RECURSIVE swallow(_)
        swallow(q) ==
            IF isAtEnd(q) THEN q
            ELSE IF previous(q).type = "SEMICOLON" THEN q
            ELSE swallow(advance(q))
    IN swallow(advance(p))

\* a plausible slip: the token of the error is not stepped over first
synchronizeAtError(p) ==
    LET RECURSIVE swallow(_)
        swallow(q) ==
            IF isAtEnd(q) THEN q
            ELSE IF previous(q).type = "SEMICOLON" THEN q
            ELSE IF peek(q).type \in {"CLASS", "FUN", "VAR", "FOR", "IF", "WHILE",
                                      "PRINT", "RETURN"} THEN q
            ELSE Then(iterated(q, advance(q)), swallow)
    IN swallow(p)

\* U9: synchronize()
synchronize(p) ==
    LET RECURSIVE swallow(_)
        swallow(q) ==
            IF isAtEnd(q) THEN q
            ELSE IF previous(q).type = "SEMICOLON" THEN q
            ELSE IF peek(q).type \in {"CLASS", "FUN", "VAR", "FOR", "IF", "WHILE",
                                      "PRINT", "RETURN"} THEN q
            ELSE Then(iterated(q, advance(q)), swallow)
    IN swallow(advance(p))

RECURSIVE declaration(_, _)
RECURSIVE statement(_, _)
RECURSIVE block(_, _)
RECURSIVE function(_, _)
RECURSIVE for_stmt(_, _)
RECURSIVE if_stmt(_, _)
RECURSIVE while_stmt(_, _)
RECURSIVE assignment(_)
RECURSIVE unary(_)
RECURSIVE finish_call(_, _)
RECURSIVE primary(_)

\* E0: expression
expression(p) == assignment(p)

\* SS9: expr_stmt
expr_stmt(p) ==
    Then(expression(p), LAMBDA expr :
    Then(consume(expr, "SEMICOLON", "Expect ';' after value."), LAMBDA semi :
    Made(semi, Expression(semi.nid, expr.val))))

\* SS2: print_stmt
print_stmt(p) ==
    Then(expression(p), LAMBDA expr :
    Then(consume(expr, "SEMICOLON", "Expect ';' after value."), LAMBDA semi :
    Made(semi, PrintStmt(semi.nid, expr.val))))

\* SSr: return_stmt; value stays None without an expression
return_stmt(p) ==
    Then(IF ~check(p, "SEMICOLON") THEN expression(p) ELSE [p EXCEPT !.val = NoNode],
         LAMBDA value :
    Then(consume(value, "SEMICOLON", "Expect semicolon after 'return'"), LAMBDA semi :
    Made(semi, Return(semi.nid, value.val))))

\* SSb: break_stmt(in_loop); the error is at previous(), the break itself
break_stmt(p, in_loop) ==
    IF ~in_loop
    THEN error(p, p.current - 1, "Break statement only allowed within a loop.")
    ELSE Then(consume(p, "SEMICOLON", "Expect ';' after 'break'."), LAMBDA semi :
         Made(semi, Break(semi.nid)))

\* SD2: var_stmt
var_stmt(p) ==
    Then(consume(p, "IDENTIFIER", "Expect variable name."), LAMBDA name :
    Then(match(name, {"EQUAL"}), LAMBDA eq :
    Then(IF eq.val THEN expression(eq) ELSE [eq EXCEPT !.val = NoNode], LAMBDA initializer :
    Then(consume(initializer, "SEMICOLON", "Expect ';' after variable declaration."),
         LAMBDA semi :
    Made(semi, Var(semi.nid, name.val.lexeme, initializer.val))))))

\* SS1: block(in_loop), the declarations up to the closing brace
block(p, in_loop) ==
    LET RECURSIVE loop(_, _)
        loop(q, stmts) ==
            IF (~check(q, "RIGHT_BRACE")) /\ (~isAtEnd(q))
            THEN Then(iterated(q, declaration(q, in_loop)), LAMBDA d :
                 loop(d, Append(stmts, d.val)))
            ELSE Then(consume(q, "RIGHT_BRACE", "Expect '}' after block."), LAMBDA brace :
                 [brace EXCEPT !.val = stmts])
    IN loop(p, << >>)

\* SD1: function(expected); the name is consume(IDENTIFIER), the parameters
\* are counted before each append, the body is block() outside every loop
function(p, expected) ==
    LET method == expected = "method"
        RECURSIVE loop(_, _)
        loop(q, parameters) ==
            IF check(q, "RIGHT_PAREN") THEN [q EXCEPT !.val = parameters]
            ELSE IF Len(parameters) > Max_Args
            THEN error(q, q.current, "Cannot have more than 16 parameters.")
            ELSE Then(consume(q, "IDENTIFIER", "Expect parameter name"), LAMBDA param :
                 Then(match(param, {"COMMA"}), LAMBDA comma :
                 IF ~comma.val
                 THEN [comma EXCEPT !.val = Append(parameters, param.val.lexeme)]
                 ELSE Then(iterated(q, comma), LAMBDA next :
                      loop(next, Append(parameters, param.val.lexeme)))))
    IN
    Then(consume(p, "IDENTIFIER", IF method THEN "Expect method name"
                                  ELSE "Expect function name"), LAMBDA name :
    Then(consume(name, "LEFT_PAREN", IF method THEN "Expect '(' after method name"
                                     ELSE "Expect '(' after function name"), LAMBDA paren :
    Then(loop(paren, << >>), LAMBDA params :
    Then(consume(params, "RIGHT_PAREN", "Expect ')' to close parameter list"),
         LAMBDA close :
    Then(consume(close, "LEFT_BRACE", IF method THEN "Expect block statement as method body"
                                      ELSE "Expect block statement as function body"),
         LAMBDA brace :
    Then(block(brace, FALSE), LAMBDA body :
    Made(body, Function(body.nid, name.val.lexeme, params.val, body.val))))))))

\* SDC: class_decl
class_decl(p) ==
    LET RECURSIVE loop(_, _)
        loop(q, methods) ==
            IF (~isAtEnd(q)) /\ (~check(q, "RIGHT_BRACE"))
            THEN Then(iterated(q, function(q, "method")), LAMBDA m :
                 loop(m, Append(methods, m.val)))
            ELSE [q EXCEPT !.val = methods]
    IN
    Then(consume(p, "IDENTIFIER", "Expect class name."), LAMBDA name :
    Then(match(name, {"LESS"}), LAMBDA less :
    Then(IF ~less.val THEN [less EXCEPT !.val = NoNode]
         ELSE Then(consume(less, "IDENTIFIER", "Expect superclass name."), LAMBDA id :
              Made(id, Variable(id.nid, id.val.lexeme))), LAMBDA super :
    Then(consume(super, "LEFT_BRACE", "Expect '{' before class body."), LAMBDA brace :
    Then(loop(brace, << >>), LAMBDA methods :
    Then(consume(methods, "RIGHT_BRACE", "Expect '}' to close class declaration."),
         LAMBDA close :
    Made(close, Class(close.nid, name.val.lexeme, super.val, methods.val))))))))

\* a plausible slip: the increment placed in front of the body
for_stmtPostFirst(p, in_loop) ==
    Then(consume(p, "LEFT_PAREN", "Expect '(' after 'for'"), LAMBDA paren :
    Then(match(paren, {"SEMICOLON"}), LAMBDA semi :
    Then(IF semi.val THEN [semi EXCEPT !.val = NoNode]
         ELSE Then(match(semi, {"VAR"}), LAMBDA var :
              IF var.val THEN var_stmt(var) ELSE expr_stmt(var)), LAMBDA init :
    Then(IF ~check(init, "SEMICOLON") THEN expression(init)
         ELSE Made(init, Literal(init.nid, BoolV(TRUE))), LAMBDA test :
    Then(consume(test, "SEMICOLON", "expect ';' after loop condition"), LAMBDA semi2 :
    Then(IF ~check(semi2, "RIGHT_PAREN") THEN expression(semi2)
         ELSE [semi2 EXCEPT !.val = NoNode], LAMBDA post :
    Then(consume(post, "RIGHT_PAREN", "expect ')' to close for(...)"), LAMBDA close :
    Then(statement(close, TRUE), LAMBDA body :
    LET n == body.nid
        loop_body == IF post.val.k # "None"
                     THEN Block(n + 1, << Expression(n, post.val), body.val >>)
                     ELSE body.val
        loop_Stmt == While(n + 2, test.val, loop_body)
    IN [body EXCEPT !.nid = n + 4,
                    !.val = IF init.val.k # "None"
                            THEN Block(n + 3, << init.val, loop_Stmt >>)
                            ELSE loop_Stmt]))))))))

\* SSf: for_stmt(in_loop) builds { init; while (test) { body; post; } }
for_stmt(p, in_loop) ==
    Then(consume(p, "LEFT_PAREN", "Expect '(' after 'for'"), LAMBDA paren :
    Then(match(paren, {"SEMICOLON"}), LAMBDA semi :
    Then(IF semi.val THEN [semi EXCEPT !.val = NoNode]
         ELSE Then(match(semi, {"VAR"}), LAMBDA var :
              IF var.val THEN var_stmt(var) ELSE expr_stmt(var)), LAMBDA init :
    Then(IF ~check(init, "SEMICOLON") THEN expression(init)
         ELSE Made(init, Literal(init.nid, BoolV(TRUE))), LAMBDA test :
    Then(consume(test, "SEMICOLON", "expect ';' after loop condition"), LAMBDA semi2 :
    Then(IF ~check(semi2, "RIGHT_PAREN") THEN expression(semi2)
         ELSE [semi2 EXCEPT !.val = NoNode], LAMBDA post :
    Then(consume(post, "RIGHT_PAREN", "expect ')' to close for(...)"), LAMBDA close :
    Then(statement(close, TRUE), LAMBDA body :
    LET n == body.nid
        loop_body == IF post.val.k # "None"
                     THEN Block(n + 1, << body.val, Expression(n, post.val) >>)
                     ELSE body.val
        loop_Stmt == While(n + 2, test.val, loop_body)
    IN [body EXCEPT !.nid = n + 4,
                    !.val = IF init.val.k # "None"
                            THEN Block(n + 3, << init.val, loop_Stmt >>)
                            ELSE loop_Stmt]))))))))

\* SS1: if_stmt(in_loop)
if_stmt(p, in_loop) ==
    Then(consume(p, "LEFT_PAREN", "'(' required for if-condition"), LAMBDA paren :
    Then(expression(paren), LAMBDA condition :
    Then(consume(condition, "RIGHT_PAREN", "')' expected after if-condition"),
         LAMBDA close :
    Then(statement(close, in_loop), LAMBDA then_clause :
    Then(match(then_clause, {"ELSE"}), LAMBDA else :
    Then(IF else.val THEN statement(else, in_loop) ELSE [else EXCEPT !.val = NoNode],
         LAMBDA else_clause :
    Made(else_clause, If(else_clause.nid, condition.val, then_clause.val,
                         else_clause.val))))))))

\* a plausible slip: the body of a loop inherits the flag of its surroundings
while_stmtInheriting(p, in_loop) ==
    Then(consume(p, "LEFT_PAREN", "Expect '(' after 'while'."), LAMBDA paren :
    Then(expression(paren), LAMBDA condition :
    Then(consume(condition, "RIGHT_PAREN", "Expect while condition to close with ')'."),
         LAMBDA close :
    Then(statement(close, in_loop), LAMBDA body :
    Made(body, While(body.nid, condition.val, body.val))))))

\* SS3: while_stmt(in_loop)
while_stmt(p, in_loop) ==
    Then(consume(p, "LEFT_PAREN", "Expect '(' after 'while'."), LAMBDA paren :
    Then(expression(paren), LAMBDA condition :
    Then(consume(condition, "RIGHT_PAREN", "Expect while condition to close with ')'."),
         LAMBDA close :
    Then(statement(close, TRUE), LAMBDA body :
    Made(body, While(body.nid, condition.val, body.val))))))

\* SS0: statement(in_loop)
statement(p, in_loop) ==
    CASE check(p, "FOR") -> for_stmt(advance(p), in_loop)
      [] check(p, "IF") -> if_stmt(advance(p), in_loop)
      [] check(p, "PRINT") -> print_stmt(advance(p))
      [] check(p, "RETURN") -> return_stmt(advance(p))
      [] check(p, "WHILE") -> while_stmt(advance(p), in_loop)
      [] check(p, "BREAK") -> break_stmt(advance(p), in_loop)
      [] check(p, "LEFT_BRACE") ->
            Then(block(advance(p), in_loop), LAMBDA stmts :
            Made(stmts, Block(stmts.nid, stmts.val)))
      [] OTHER -> expr_stmt(p)

\* self.error_report(PEX.error_token, PEX.error_message)
reported(d) ==
    [d EXCEPT !.exc = "none",
              !.reports = Append(@, [token |-> d.etoken, message |-> d.emessage])]

\* except Parser.ParseError in declaration: the error d is reported, the
\* parser synchronizes (to s) and the declaration is None
caught(d, s) ==
    [s EXCEPT !.val = NoNode,
              !.syncs = Append(@, [from |-> d.current, to |-> s.current])]

\* the try statement of declaration around the outcome d of its body
tried(d) == IF d.exc = "ParseError" THEN caught(d, synchronize(reported(d))) ELSE d

\* S0: declaration(in_loop)
declaration(p, in_loop) ==
    tried(CASE peek(p).type \notin {"CLASS", "FUN", "VAR"} -> statement(p, in_loop)
            [] check(p, "CLASS") -> class_decl(advance(p))
            [] check(p, "FUN") -> function(advance(p), "function")
            [] OTHER -> var_stmt(advance(p)))

\* E8: primary
primary(p) ==
    CASE check(p, "IDENTIFIER") ->
            Then(advance(p), LAMBDA a : Made(a, Variable(a.nid, previous(a).lexeme)))
      [] check(p, "FALSE") ->
            Then(advance(p), LAMBDA a : Made(a, Literal(a.nid, BoolV(FALSE))))
      [] check(p, "TRUE") ->
            Then(advance(p), LAMBDA a : Made(a, Literal(a.nid, BoolV(TRUE))))
      [] check(p, "NIL") -> Then(advance(p), LAMBDA a : Made(a, Literal(a.nid, NilV)))
      [] check(p, "THIS") -> Then(advance(p), LAMBDA a : Made(a, This(a.nid)))
      [] check(p, "SUPER") ->
            Then(consume(advance(p), "DOT", "Expect '.' after 'super'"), LAMBDA dot :
            Then(consume(dot, "IDENTIFIER", "Expect superclass method name."),
                 LAMBDA method_name :
            Made(method_name, Super(method_name.nid, method_name.val.lexeme))))
      [] check(p, "NUMBER") \/ check(p, "STRING") ->
            Then(advance(p), LAMBDA a : Made(a, Literal(a.nid, previous(a).literal)))
      [] check(p, "LEFT_PAREN") ->
            Then(advance(p), LAMBDA a :
            Then(IF peek(a).type = "RIGHT_PAREN" THEN Made(a, Literal(a.nid, NilV))
                 ELSE expression(a), LAMBDA grouped_expr :
            Then(consume(grouped_expr, "RIGHT_PAREN", "Expected ')' after expression"),
                 LAMBDA close :
            Made(close, Grouping(close.nid, grouped_expr.val)))))
      [] OTHER ->
            IF peek(p).type \in {"PLUS", "SLASH", "STAR", "EQUAL", "GREATER", "LESS"}
            THEN error(p, p.current, "operator requires a left operand")
            ELSE error(p, p.current, "Unanticipated input")

\* finish_call(callee): the arguments are counted after each append, a comma
\* is eaten if there is one; the ParseError of the limit carries self.peek,
\* the method, where a token is expected (token 0 here)
finish_call(p, callee) ==
    LET RECURSIVE loop(_, _)
        loop(q, list) ==
            IF check(q, "RIGHT_PAREN") THEN [q EXCEPT !.val = list]
            ELSE Then(expression(q), LAMBDA arg :
                 IF Len(list) + 1 >= Max_Args
                 THEN error(arg, 0, "Function may not have 16 arguments")
                 ELSE Then(iterated(q, match(arg, {"COMMA"})), LAMBDA next :
                      loop(next, Append(list, arg.val))))
    IN Then(loop(p, << >>), LAMBDA args :
       Then(consume(args, "RIGHT_PAREN", "This message cannot be displayed"),
            LAMBDA rparen :
       Made(rparen, Call(rparen.nid, callee, args.val))))

\* E7: call
call(p) ==
    LET RECURSIVE loop(_)
        loop(an_expr) ==
            IF an_expr.exc # "none" THEN an_expr
            ELSE IF check(an_expr, "LEFT_PAREN")
            THEN loop(finish_call(advance(an_expr), an_expr.val))
            ELSE IF check(an_expr, "DOT")
            THEN Then(consume(advance(an_expr), "IDENTIFIER",
                              "Expect property name after '.'"), LAMBDA name :
                 loop(Made(name, Get(name.nid, an_expr.val, name.val.lexeme))))
            ELSE an_expr
    IN loop(primary(p))

\* E6: unary
unary(p) ==
    IF check(p, "BANG") \/ check(p, "MINUS")
    THEN Then(unary(advance(p)), LAMBDA rhs :
         Made(rhs, Unary(rhs.nid, peek(p).type, rhs.val)))
    ELSE call(p)

\* E1a .. E5: operand (op operand)*, the operators of one level associating to
\* the left; make is the node class of the level
leftAssociative(p, types, operand(_), make(_, _, _, _)) ==
    LET RECURSIVE loop(_)
        loop(result) ==
            IF result.exc # "none" \/ ~(\E ttype \in types : check(result, ttype))
            THEN result
            ELSE Then(operand(advance(result)), LAMBDA rhs :
                 loop(Made(rhs, make(rhs.nid, result.val, peek(result).type, rhs.val))))
    IN loop(operand(p))

multiplication(p) == leftAssociative(p, {"SLASH", "STAR"}, unary, Binary)
addition(p) == leftAssociative(p, {"MINUS", "PLUS"}, multiplication, Binary)
comparison(p) ==
    leftAssociative(p, {"GREATER", "GREATER_EQUAL", "LESS", "LESS_EQUAL"}, addition, Binary)
equality(p) == leftAssociative(p, {"BANG_EQUAL", "EQUAL_EQUAL"}, comparison, Binary)
logic_and(p) == leftAssociative(p, {"AND"}, equality, Logical)
logic_or(p) == leftAssociative(p, {"OR"}, logic_and, Logical)

\* a plausible slip: the parentheses around a target are looked through
assignmentThroughGrouping(p) ==
    Then(logic_or(p), LAMBDA possible_lhs :
    IF ~check(possible_lhs, "EQUAL") THEN possible_lhs
    ELSE Then(assignment(advance(possible_lhs)), LAMBDA rhs :
         LET error_pos == possible_lhs.current
             target == IF possible_lhs.val.k = "Grouping" THEN possible_lhs.val.expression
                       ELSE possible_lhs.val
         IN IF target.k = "Variable"
            THEN Made(rhs, Assign(rhs.nid, target.name, rhs.val))
            ELSE IF target.k = "Get"
            THEN Made(rhs, Set(rhs.nid, target.object, target.name, rhs.val))
            ELSE error(rhs, error_pos, "Invalid target for assignment")))

\* E1: assignment; error_pos is previous() after match(EQUAL), the `=`
assignment(p) ==
    Then(logic_or(p), LAMBDA possible_lhs :
    IF ~check(possible_lhs, "EQUAL") THEN possible_lhs
    ELSE Then(assignment(advance(possible_lhs)), LAMBDA rhs :
         LET error_pos == possible_lhs.current
         IN IF possible_lhs.val.k = "Variable"
            THEN Made(rhs, Assign(rhs.nid, possible_lhs.val.name, rhs.val))
            ELSE IF possible_lhs.val.k = "Get"
            THEN Made(rhs, Set(rhs.nid, possible_lhs.val.object, possible_lhs.val.name,
                               rhs.val))
            ELSE error(rhs, error_pos, "Invalid target for assignment")))

(***************************************************************************)
(* Scanner.py.  A source string is a sequence of characters and an index   *)
(* counts from 0 as in Python.  The state of a Scanner is a record         *)
(*   source, tokens, start, current, line, last_newline    its attributes  *)
(*   reports   the calls of its error_report(line, message)                *)
(*   exc       "none", or the exception that left scanTokens               *)
(*   val       what the last method returned                               *)
(*   phase     "absent", "scanning", "scanned" or "raised"                 *)
(*   starts    history: self.start at each addToken                        *)
(* The statement `while not self.isAtEnd()` of Scanner.py:161 goes on in   *)
(* line 162 without a line joint; it is read as the one loop its comment   *)
(* describes.                                                              *)
(***************************************************************************)
\* TokenType.py, by lexeme
TokenTypes ==
    [l \in {"and", "class", "else", "false", "for", "fun", "if", "nil", "or", "print",
            "return", "super", "this", "true", "var", "while", "(", ")", "{",
            "}", ",", ".", "-", "+", ";", "/", "*", "!", "!=", "=", "==", ">", ">=",
            "<", "<="} |->
        CASE l = "and" -> "AND" [] l = "class" -> "CLASS" [] l = "else" -> "ELSE"
          [] l = "false" -> "FALSE" [] l = "for" -> "FOR" [] l = "fun" -> "FUN"
          [] l = "if" -> "IF" [] l = "nil" -> "NIL" [] l = "or" -> "OR"
          [] l = "print" -> "PRINT" [] l = "return" -> "RETURN" [] l = "super" -> "SUPER"
          [] l = "this" -> "THIS" [] l = "true" -> "TRUE" [] l = "var" -> "VAR"
          [] l = "while" -> "WHILE"
          [] l = "(" -> "LEFT_PAREN" [] l = ")" -> "RIGHT_PAREN"
          [] l = "{" -> "LEFT_BRACE" [] l = "}" -> "RIGHT_BRACE"
          [] l = "," -> "COMMA" [] l = "." -> "DOT" [] l = "-" -> "MINUS"
          [] l = "+" -> "PLUS" [] l = ";" -> "SEMICOLON" [] l = "/" -> "SLASH"
          [] l = "*" -> "STAR" [] l = "!" -> "BANG" [] l = "!=" -> "BANG_EQUAL"
          [] l = "=" -> "EQUAL" [] l = "==" -> "EQUAL_EQUAL" [] l = ">" -> "GREATER"
          [] l = ">=" -> "GREATER_EQUAL" [] l = "<" -> "LESS" [] l = "<=" -> "LESS_EQUAL"]

NUL == "NUL"                  \* '\x00'
NEWLINE == "\n"
QUOTE == "\""
SuperscriptTwo == "^2"        \* U+00B2, a digit that is not a decimal

\* str.isdecimal, str.isdigit, str.isspace, str.isidentifier and str.isalnum
\* of one character
isdecimal(c) == DigitValue(c) >= 0
isdigit(c) == isdecimal(c) \/ c = SuperscriptTwo
isspace(c) == c \in {" ", "\t", "\r", NEWLINE}
Letters ==
    {"a", "b", "c", "d", "e", "f", "g", "h", "i", "j", "k", "l", "m", "n", "o", "p", "q", "r",
     "s", "t", "u", "v", "w", "x", "y", "z"}
isidentifier(c) == c \in Letters \cup {"_"}
isalnum(c) == c \in Letters \/ isdigit(c)

\* Scanner(source, error_report)
NewScanner(source) ==
    [source |-> source, tokens |-> << >>, start |-> 0, current |-> 0, line |-> 1,
     last_newline |-> 0, reports |-> << >>, exc |-> "none", val |-> NUL,
     phase |-> "scanning", starts |-> << >>]

\* no Scanner: the tokens were not scanned from a string
NoScanner == [NewScanner(<< >>) EXCEPT !.phase = "absent"]

\* Scanner.isAtEnd, peek, peek_next and advance
sourceAtEnd(s) == s.current >= Len(s.source)
peekChar(s) == IF sourceAtEnd(s) THEN NUL ELSE s.source[s.current + 1]
peek_next(s) == IF s.current + 1 >= Len(s.source) THEN NUL ELSE s.source[s.current + 2]
advanceChar(s) == [s EXCEPT !.current = @ + 1, !.val = s.source[s.current + 1]]

look_for(s, c) ==
    IF sourceAtEnd(s) \/ s.source[s.current + 1] # c THEN [s EXCEPT !.val = FALSE]
    ELSE [s EXCEPT !.current = @ + 1, !.val = TRUE]

\* source[first:last]
Slice(source, first, end) == SubSeq(source, first + 1, end)

addToken(s, type, literal) ==
    [s EXCEPT !.tokens = Append(@, LoxToken(type, Slice(s.source, s.start, s.current), literal)),
              !.starts = Append(@, s.start)]

\* Scanner.keywords
keywords ==
    (<< "a", "n", "d" >> :> "AND")
    @@ (<< "c", "l", "a", "s", "s" >> :> "CLASS")
    @@ (<< "e", "l", "s", "e" >> :> "ELSE")
    @@ (<< "f", "a", "l", "s", "e" >> :> "FALSE")
    @@ (<< "f", "o", "r" >> :> "FOR")
    @@ (<< "f", "u", "n" >> :> "FUN")
    @@ (<< "i", "f" >> :> "IF")
    @@ (<< "n", "i", "l" >> :> "NIL")
    @@ (<< "o", "r" >> :> "OR")
    @@ (<< "p", "r", "i", "n", "t" >> :> "PRINT")
    @@ (<< "r", "e", "t", "u", "r", "n" >> :> "RETURN")
    @@ (<< "s", "u", "p", "e", "r" >> :> "SUPER")
    @@ (<< "t", "h", "i", "s" >> :> "THIS")
    @@ (<< "t", "r", "u", "e" >> :> "TRUE")
    @@ (<< "v", "a", "r" >> :> "VAR")
    @@ (<< "w", "h", "i", "l", "e" >> :> "WHILE")

\* the lambda of switch_dict[c]: the token type, or "None" after //
twoCharacters(s, c, two, one) ==
    IF look_for(s, c).val THEN [look_for(s, c) EXCEPT !.val = two] ELSE [s EXCEPT !.val = one]

switch_dict(s, c) ==
    CASE c = "!" -> twoCharacters(s, "=", "BANG_EQUAL", "BANG")
      [] c = "=" -> twoCharacters(s, "=", "EQUAL_EQUAL", "EQUAL")
      [] c = "<" -> twoCharacters(s, "=", "LESS_EQUAL", "LESS")
      [] c = ">" -> twoCharacters(s, "=", "GREATER_EQUAL", "GREATER")
      [] c = "/" -> twoCharacters(s, "/", "None", "SLASH")
      [] OTHER -> [s EXCEPT !.val = TokenTypes[c]]

\* scanToken: while not self.isAtEnd() and self.peek() != '\n': self.advance()
RECURSIVE swallowComment(_)
swallowComment(s) ==
    IF ~sourceAtEnd(s) /\ peekChar(s) # NEWLINE THEN swallowComment(advanceChar(s)) ELSE s

\* string_lit: the loop up to the closing quote, counting the lines
RECURSIVE stringBody(_)
stringBody(s) ==
    IF ~sourceAtEnd(s) /\ QUOTE # peekChar(s)
    THEN stringBody(advanceChar(IF peekChar(s) = NEWLINE THEN [s EXCEPT !.line = @ + 1] ELSE s))
    ELSE s

reportedAt(s, line, message) ==
    [s EXCEPT !.reports = Append(@, [line |-> line, message |-> message])]

string_lit(s) ==
    IF ~sourceAtEnd(stringBody(s))
    THEN addToken(advanceChar(stringBody(s)), "STRING",
                  StrV(Slice(s.source, s.start + 1, stringBody(s).current)))
    ELSE reportedAt(stringBody(s), s.line, "Unterminated string")

\* while self.peek().isdecimal(): self.advance()
RECURSIVE decimals(_)
decimals(s) == IF isdecimal(peekChar(s)) THEN decimals(advanceChar(s)) ELSE s

\* float(text) of the text number_lit has bounded: ValueError unless it is
\* decimals with at most one dot inside; the value keeps the fraction digits
float(text) ==
    IF \E i \in 1..Len(text) : ~isdecimal(text[i]) /\ text[i] # "."
    THEN [exc |-> "ValueError", val |-> NilV]
    ELSE IF \E i \in 1..Len(text) : text[i] = "."
    THEN LET dot == CHOOSE i \in 1..Len(text) : text[i] = "." IN
         [exc |-> "none",
          val |-> [t |-> "num", v |-> DigitsValue(SubSeq(text, 1, dot - 1)),
                   fraction |-> SubSeq(text, dot + 1, Len(text))]]
    ELSE [exc |-> "none", val |-> NumV(DigitsValue(text))]

fractionPart(s) ==
    IF peekChar(s) = "." /\ isdecimal(peek_next(s)) THEN decimals(advanceChar(s)) ELSE s

numbered(s, literal) ==
    IF literal.exc = "none" THEN addToken(s, "NUMBER", literal.val)
    ELSE [s EXCEPT !.exc = literal.exc]

number_lit(s) ==
    numbered(fractionPart(decimals(s)),
             float(Slice(s.source, s.start, fractionPart(decimals(s)).current)))

\* identifier: the loop over the rest of the word, then the keyword lookup
RECURSIVE identifier(_)
identifier(s) ==
    IF isalnum(peekChar(s)) \/ peekChar(s) = "_" THEN identifier(advanceChar(s))
    ELSE addToken(s, IF Slice(s.source, s.start, s.current) \in DOMAIN keywords
                     THEN keywords[Slice(s.source, s.start, s.current)]
                     ELSE "IDENTIFIER", NilV)

\* scanToken after c = self.advance()
scanned(s, c) ==
    IF c \in {"(", ")", "{", "}", ",", ".", "-", "+", ";", "*", "!", "=", "<", ">", "/"}
    THEN IF switch_dict(s, c).val # "None"
         THEN addToken(switch_dict(s, c), switch_dict(s, c).val, NilV)
         ELSE swallowComment(switch_dict(s, c))
    ELSE IF c = NEWLINE THEN [s EXCEPT !.last_newline = s.current, !.line = @ + 1]
    ELSE IF isspace(c) THEN s
    ELSE IF c = QUOTE THEN string_lit(s)
    ELSE IF isdigit(c) THEN number_lit(s)
    ELSE IF isidentifier(c) THEN identifier(s)
    ELSE reportedAt(s, s.line, "Unexpected character")

scanToken(s) == scanned(advanceChar(s), advanceChar(s).val)

(***************************************************************************)
(* The programs of the model: the List[Stmt] handed to interpret, with the *)
(* callables that its Literal nodes hold (built by the host with the       *)
(* globals as closure).  Node ids are unique.                              *)
(***************************************************************************)
True(id) == Literal(id, BoolV(TRUE))
Num(id, n) == Literal(id, NumV(n))
\* a program with the LoxFunction, LoxClass and LoxInstance objects its Literal
\* nodes hold; envs are the Environment objects those functions closed over
\* and locals the depths handed to Interpreter.resolve() by the host
ProgWith(stmts, fs, cs, is) ==
    [stmts |-> stmts, funs |-> fs, classes |-> cs, insts |-> is,
     envs |-> << >>, locals |-> << >>]
Prog(stmts, fs, cs) == ProgWith(stmts, fs, cs, << >>)

\* while (true) { print 1; break; print 2; } print 3;
BreakInBlock ==
    Prog(<< While(101, True(102),
                  Block(103, << PrintStmt(104, Num(105, 1)), Break(106),
                                PrintStmt(107, Num(108, 2)) >>)),
            PrintStmt(109, Num(110, 3)) >>, << >>, << >>)

\* while (true) { print 1; if (true) { break; } print 2; } print 3;
BreakInIf ==
    Prog(<< While(201, True(202),
                  Block(203, << PrintStmt(204, Num(205, 1)),
                                If(206, True(207), Block(208, << Break(209) >>), NoNode),
                                PrintStmt(210, Num(211, 2)) >>)),
            PrintStmt(212, Num(213, 3)) >>, << >>, << >>)

\* while (true) break; print 3;
BreakBare ==
    Prog(<< While(301, True(302), Break(303)), PrintStmt(304, Num(305, 3)) >>,
         << >>, << >>)

\* { var a = 1; { print a; } }
NestedRead ==
    Prog(<< Block(401, << Var(402, "a", Num(403, 1)),
                          Block(404, << PrintStmt(405, Variable(406, "a")) >>) >>) >>,
         << >>, << >>)

\* { var a = 1; a = 2; }
LocalAssign ==
    Prog(<< Block(501, << Var(502, "a", Num(503, 1)),
                          Expression(504, Assign(505, "a", Num(506, 2))) >>) >>,
         << >>, << >>)

\* { var a = 1; { { print a; } } }
NestedTwice ==
    Prog(<< Block(601, << Var(602, "a", Num(603, 1)),
                          Block(604, << Block(605,
                              << PrintStmt(606, Variable(607, "a")) >>) >>) >>) >>,
         << >>, << >>)

\* print (nil or 2); print 1 or 2; print nil and 2; print 1 and "x";
\* print false or false; if (false) print 1; else print 2; if (nil) print 3;
Logicals ==
    Prog(<< PrintStmt(701, Grouping(702, Logical(703, Literal(704, NilV), "OR", Num(705, 2)))),
            PrintStmt(706, Logical(707, Num(708, 1), "OR", Num(709, 2))),
            PrintStmt(710, Logical(711, Literal(712, NilV), "AND", Num(713, 2))),
            PrintStmt(714, Logical(715, Num(716, 1), "AND", Literal(717, StrV(<< "x" >>)))),
            PrintStmt(718, Logical(719, Literal(720, BoolV(FALSE)), "OR",
                                        Literal(721, BoolV(FALSE)))),
            If(722, Literal(723, BoolV(FALSE)), PrintStmt(724, Num(725, 1)),
                    PrintStmt(726, Num(727, 2))),
            If(728, Literal(729, NilV), PrintStmt(730, Num(731, 3)), NoNode) >>,
         << >>, << >>)

\* print 0; 1(2); print 3;
NotCallable ==
    Prog(<< PrintStmt(801, Num(802, 0)),
            Expression(803, Call(804, Num(805, 1), << Num(806, 2) >>)),
            PrintStmt(807, Num(808, 3)) >>, << >>, << >>)

\* fun f(a, b) { { print 5; return 6; } print 7; }
\* print f(1, 2); f(1); print 4;
Calls ==
    Prog(<< PrintStmt(901, Call(902, Literal(903, FunV(1)), << Num(904, 1), Num(905, 2) >>)),
            Expression(906, Call(907, Literal(908, FunV(1)), << Num(909, 1) >>)),
            PrintStmt(910, Num(911, 4)) >>,
         << LoxFunction(Function(950, "f", << "a", "b" >>,
                << Block(951, << PrintStmt(952, Num(953, 5)),
                                 Return(954, Num(955, 6)) >>),
                   PrintStmt(956, Num(957, 7)) >>), Globals, FALSE) >>,
         << >>)

\* print clock(); clock(1);
Clock ==
    Prog(<< PrintStmt(1001, Call(1002, Literal(1003, ClockV), << >>)),
            Expression(1004, Call(1005, Literal(1006, ClockV), << Num(1007, 1) >>)) >>,
         << >>, << >>)

\* fun g(a, a) { print 1; }   g(1, 2);
DupParams ==
    Prog(<< Expression(1101, Call(1102, Literal(1103, FunV(1)),
                                  << Num(1104, 1), Num(1105, 2) >>)) >>,
         << LoxFunction(Function(1150, "g", << "a", "a" >>,
                << PrintStmt(1151, Num(1152, 1)) >>), Globals, FALSE) >>,
         << >>)

\* fun inc() { i = 1; }   var x; var i = 0; inc(); print 9;
Counter ==
    Prog(<< Var(1201, "x", NoNode), Var(1202, "i", Num(1203, 0)),
            Expression(1204, Call(1205, Literal(1206, FunV(1)), << >>)),
            PrintStmt(1207, Num(1208, 9)) >>,
         << LoxFunction(Function(1250, "inc", << >>,
                << Expression(1251, Assign(1252, "i", Num(1253, 1))) >>),
                Globals, FALSE) >>,
         << >>)

\* fun makeCounter() { var i = 0; fun count() { i = 1; print i; } return count; }
\* var c = makeCounter();
MakeCounter ==
    Prog(<< Function(1301, "makeCounter", << >>,
                << Var(1302, "i", Num(1303, 0)),
                   Function(1304, "count", << >>,
                       << Expression(1305, Assign(1306, "i", Num(1307, 1))),
                          PrintStmt(1308, Variable(1309, "i")) >>),
                   Return(1310, Variable(1311, "count")) >>),
            Var(1312, "c", Call(1313, Variable(1314, "makeCounter"), << >>)) >>,
         << >>, << >>)

\* class C { init() { return; } }   print C(); print C().init();
InitReturn ==
    Prog(<< PrintStmt(1401, Call(1402, Literal(1403, ClassV(1)), << >>)),
            PrintStmt(1404, Call(1405, Get(1406, Call(1407, Literal(1408, ClassV(1)), << >>),
                                           "init"), << >>)) >>,
         << LoxFunction(Function(1450, "init", << >>, << Return(1451, NoNode) >>),
                        Globals, TRUE) >>,
         << LoxClass("C", [m \in {"init"} |-> 1], None) >>)

\* class D {}  class E { init(n) { print 8; } }
\* print D(); print E(4).init(5); E();
InitPlain ==
    Prog(<< PrintStmt(1501, Call(1502, Literal(1503, ClassV(1)), << >>)),
            PrintStmt(1504, Call(1505, Get(1506, Call(1507, Literal(1508, ClassV(2)),
                                                      << Num(1509, 4) >>),
                                           "init"), << Num(1510, 5) >>)),
            Expression(1511, Call(1512, Literal(1513, ClassV(2)), << >>)) >>,
         << LoxFunction(Function(1550, "init", << "n" >>,
                                 << PrintStmt(1551, Num(1552, 8)) >>), Globals, TRUE) >>,
         << LoxClass("D", << >>, None), LoxClass("E", [m \in {"init"} |-> 1], None) >>)

\* class F { init() { return 5; } }   print F().init();
InitValue ==
    Prog(<< PrintStmt(1601, Call(1602, Get(1603, Call(1604, Literal(1605, ClassV(1)), << >>),
                                           "init"), << >>)) >>,
         << LoxFunction(Function(1650, "init", << >>, << Return(1651, Num(1652, 5)) >>),
                        Globals, TRUE) >>,
         << LoxClass("F", [m \in {"init"} |-> 1], None) >>)

\* { class A { m() { print 1; } } }
ClassStmt ==
    Prog(<< Block(1701, << Class(1702, "A", NoNode,
                << Function(1703, "m", << >>, << PrintStmt(1704, Num(1705, 1)) >>) >>) >>) >>,
         << >>, << >>)

\* class C {}   { class B < C { m() { print 1; } } }
ClassSuper ==
    Prog(<< Block(1801, << Class(1802, "B", Literal(1803, ClassV(1)),
                << Function(1804, "m", << >>, << PrintStmt(1805, Num(1806, 1)) >>) >>) >>) >>,
         << >>,
         << LoxClass("C", << >>, None) >>)

\* class B < (1) {}
ClassSuperBad ==
    Prog(<< Class(1901, "B", Num(1902, 1), << >>) >>, << >>, << >>)

\* fun f(a) { print a; }   f(1);   with f's LoxFunction held by the callee Literal
FunScope ==
    Prog(<< Function(2001, "f", << "a" >>, << PrintStmt(2002, Variable(2003, "a")) >>),
            Expression(2004, Call(2005, Literal(2006, FunV(1)), << Num(2007, 1) >>)) >>,
         << LoxFunction(Function(2001, "f", << "a" >>,
                                 << PrintStmt(2002, Variable(2003, "a")) >>),
                        Globals, FALSE) >>,
         << >>)

\* { var a = 1; } print 2;
Unreferenced ==
    Prog(<< Block(2101, << Var(2102, "a", Num(2103, 1)) >>),
            PrintStmt(2104, Num(2105, 2)) >>, << >>, << >>)

\* print C().x; with class C {}
NoProperty ==
    Prog(<< PrintStmt(2201, Get(2202, Call(2203, Literal(2204, ClassV(1)), << >>), "x")) >>,
         << >>, << LoxClass("C", << >>, None) >>)

\* class A { m() { print 1; } n() { print 3; } }  class B < A { m() { print 2; } }
\* with o an instance of B held by the Literal nodes:
\* o.m(); o.n(); print o.m = 5; print o.m; print o.z; print 6;
Properties ==
    ProgWith(<< Expression(2501, Call(2502, Get(2503, Literal(2504, InstV(1)), "m"), << >>)),
                Expression(2505, Call(2506, Get(2507, Literal(2508, InstV(1)), "n"), << >>)),
                PrintStmt(2509, Set(2510, Literal(2511, InstV(1)), "m", Num(2512, 5))),
                PrintStmt(2513, Get(2514, Literal(2515, InstV(1)), "m")),
                PrintStmt(2516, Get(2517, Literal(2518, InstV(1)), "z")),
                PrintStmt(2519, Num(2520, 6)) >>,
             << LoxFunction(Function(2550, "m", << >>, << PrintStmt(2551, Num(2552, 1)) >>),
                            Globals, FALSE),
                LoxFunction(Function(2553, "n", << >>, << PrintStmt(2554, Num(2555, 3)) >>),
                            Globals, FALSE),
                LoxFunction(Function(2556, "m", << >>, << PrintStmt(2557, Num(2558, 2)) >>),
                            Globals, FALSE) >>,
             << LoxClass("A", [x \in {"m", "n"} |-> IF x = "m" THEN 1 ELSE 2], None),
                LoxClass("B", [x \in {"m"} |-> 3], 1) >>,
             << [klass |-> 2, fields |-> << >>] >>)

\* class A { m() { print 1; } }  class B < A { m() { print super.m; } }
\* with o an instance of B held by the Literal node:   o.m();
\* B's method closed over the environment visitClass made for `super`, and the
\* host recorded the depth of `super` as 2 (SuperCall) or not at all (SuperBare)
SuperCall ==
    [ProgWith(<< Expression(2601, Call(2602, Get(2603, Literal(2604, InstV(1)), "m"), << >>)) >>,
              << LoxFunction(Function(2650, "m", << >>, << PrintStmt(2651, Num(2652, 1)) >>),
                             Globals, FALSE),
                 LoxFunction(Function(2653, "m", << >>,
                                      << PrintStmt(2654, Super(2655, "m")) >>),
                             Globals + 1, FALSE) >>,
              << LoxClass("A", [x \in {"m"} |-> 1], None),
                 LoxClass("B", [x \in {"m"} |-> 2], 1) >>,
              << [klass |-> 2, fields |-> << >>] >>)
     EXCEPT !.envs = << [enclosing |-> Globals, vals |-> [n \in {"super"} |-> ClassV(1)]] >>,
            !.locals = [id \in {2655} |-> 2]]

SuperBare == [SuperCall EXCEPT !.locals = << >>]

\* var a = 1; { var b = 2; nil.x; } print 3;
ErrorInBlock ==
    Prog(<< Var(2701, "a", Num(2702, 1)),
            Block(2703, << Var(2704, "b", Num(2705, 2)),
                           Expression(2706, Get(2707, Literal(2708, NilV), "x")) >>),
            PrintStmt(2709, Num(2710, 3)) >>, << >>, << >>)

\* var a = "global"; { fun show() { print a; } show(); var a = "local"; show(); }
ShowTwice ==
    Prog(<< Var(2801, "a", Literal(2802, StrV(<< "global" >>))),
            Block(2803, << Function(2804, "show", << >>,
                                    << PrintStmt(2805, Variable(2806, "a")) >>),
                           Expression(2807, Call(2808, Variable(2809, "show"), << >>)),
                           Var(2810, "a", Literal(2811, StrV(<< "local" >>))),
                           Expression(2812, Call(2813, Variable(2814, "show"), << >>)) >>) >>,
         << >>, << >>)

\* { var x = x; }
OwnInitializerBlock ==
    Prog(<< Block(2901, << Var(2902, "x", Variable(2903, "x")) >>) >>, << >>, << >>)

\* fun f() { var x = x; }
OwnInitializerFun ==
    Prog(<< Function(2911, "f", << >>, << Var(2912, "x", Variable(2913, "x")) >>) >>,
         << >>, << >>)

\* { var x = 1; { var x = x; } }
OwnInitializerShadow ==
    Prog(<< Block(2921, << Var(2922, "x", Num(2923, 1)),
                           Block(2924, << Var(2925, "x", Variable(2926, "x")) >>) >>) >>,
         << >>, << >>)

\* { var x = 1; var y = x; print y; }
ReferenceAfter ==
    Prog(<< Block(2931, << Var(2932, "x", Num(2933, 1)),
                           Var(2934, "y", Variable(2935, "x")),
                           PrintStmt(2936, Variable(2937, "y")) >>) >>, << >>, << >>)

\* var x = x;
OwnInitializerGlobal ==
    Prog(<< Var(2941, "x", Variable(2942, "x")) >>, << >>, << >>)

\* var a; print a = 1;
AssignGlobal ==
    Prog(<< Var(2301, "a", NoNode),
            PrintStmt(2302, Assign(2303, "a", Num(2304, 1))) >>, << >>, << >>)

\* var a; var b; a = b = 2;
AssignChain ==
    Prog(<< Var(2401, "a", NoNode), Var(2402, "b", NoNode),
            Expression(2403, Assign(2404, "a", Assign(2405, "b", Num(2406, 2)))) >>,
         << >>, << >>)

\* { var a; var a; }
DupVarVar ==
    Prog(<< Block(3201, << Var(3202, "a", NoNode), Var(3203, "a", NoNode) >>) >>,
         << >>, << >>)

\* { var a; fun a() { print 1; } }
DupVarFun ==
    Prog(<< Block(3211, << Var(3212, "a", NoNode),
                           Function(3213, "a", << >>,
                                    << PrintStmt(3214, Num(3215, 1)) >>) >>) >>,
         << >>, << >>)

\* fun f(a) { var a; }
DupParamVar ==
    Prog(<< Function(3221, "f", << "a" >>, << Var(3222, "a", NoNode) >>) >>,
         << >>, << >>)

\* fun f(a, a) { print a; }
DupTwoParams ==
    Prog(<< Function(3231, "f", << "a", "a" >>,
                     << PrintStmt(3232, Variable(3233, "a")) >>) >>, << >>, << >>)

\* var a = 1; var a = 2;
GlobalTwice ==
    Prog(<< Var(3241, "a", Num(3242, 1)), Var(3243, "a", Num(3244, 2)) >>,
         << >>, << >>)

\* return 1;
ReturnTop == Prog(<< Return(3301, Num(3302, 1)) >>, << >>, << >>)

\* return;
ReturnTopBare == Prog(<< Return(3311, NoNode) >>, << >>, << >>)

\* { if (true) { return 1; } }
ReturnTopNested ==
    Prog(<< Block(3321, << If(3322, True(3323),
                              Block(3324, << Return(3325, Num(3326, 1)) >>),
                              NoNode) >>) >>, << >>, << >>)

\* while (false) return;
ReturnTopLoop ==
    Prog(<< While(3331, Literal(3332, BoolV(FALSE)), Return(3333, NoNode)) >>,
         << >>, << >>)

\* fun f() { if (true) { return 1; } }
ReturnInFun ==
    Prog(<< Function(3341, "f", << >>,
                << If(3342, True(3343), Block(3344, << Return(3345, Num(3346, 1)) >>),
                      NoNode) >>) >>, << >>, << >>)

\* fun f() { return; }
ReturnBareInFun ==
    Prog(<< Function(3351, "f", << >>, << Return(3352, NoNode) >>) >>, << >>, << >>)

\* class C { init() { return 1; } }
ReturnValueInInit ==
    Prog(<< Class(3361, "C", NoNode,
                  << Function(3362, "init", << >>,
                              << Return(3363, Num(3364, 1)) >>) >>) >>, << >>, << >>)

\* class C { init() { return; } }
ReturnBareInInit ==
    Prog(<< Class(3371, "C", NoNode,
                  << Function(3372, "init", << >>, << Return(3373, NoNode) >>) >>) >>,
         << >>, << >>)

\* print this;
ThisTop == Prog(<< PrintStmt(3401, This(3402)) >>, << >>, << >>)

\* fun f() { print this; }
ThisInFun ==
    Prog(<< Function(3403, "f", << >>, << PrintStmt(3404, This(3405)) >>) >>,
         << >>, << >>)

\* print super.m;
SuperTop == Prog(<< PrintStmt(3411, Super(3412, "m")) >>, << >>, << >>)

\* class A { m() { print super.m; } }
SuperNoSuperclass ==
    Prog(<< Class(3421, "A", NoNode,
                  << Function(3422, "m", << >>,
                              << PrintStmt(3423, Super(3424, "m")) >>) >>) >>,
         << >>, << >>)

\* class A { m() { print this; } }
ThisInMethod ==
    Prog(<< Class(3431, "A", NoNode,
                  << Function(3432, "m", << >>,
                              << PrintStmt(3433, This(3434)) >>) >>) >>,
         << >>, << >>)

\* class A { m() { print 1; } }   class B < A { m() { print super.m; } }
SuperInMethod ==
    Prog(<< Class(3441, "A", NoNode,
                  << Function(3442, "m", << >>,
                              << PrintStmt(3443, Num(3444, 1)) >>) >>),
            Class(3445, "B", Variable(3446, "A"),
                  << Function(3447, "m", << >>,
                              << PrintStmt(3448, Super(3449, "m")) >>) >>) >>,
         << >>, << >>)

\* fun f() { fun g() { return 1; } return g; } print 2;
NestedFunctions ==
    Prog(<< Function(3501, "f", << >>,
                << Function(3502, "g", << >>, << Return(3503, Num(3504, 1)) >>),
                   Return(3505, Variable(3506, "g")) >>),
            PrintStmt(3507, Num(3508, 2)) >>, << >>, << >>)

\* fun f() { return 1; } return 2;
ReturnAfterFunction ==
    Prog(<< Function(3521, "f", << >>, << Return(3522, Num(3523, 1)) >>),
            Return(3524, Num(3525, 2)) >>, << >>, << >>)

\* while (true) { print 1; while (true) break; print 2; } print 3;
NestedBreak ==
    Prog(<< While(4001, True(4002),
                  Block(4003, << PrintStmt(4004, Num(4005, 1)),
                                 While(4006, True(4007), Break(4008)),
                                 PrintStmt(4009, Num(4010, 2)) >>)),
            PrintStmt(4011, Num(4012, 3)) >>, << >>, << >>)

\* while (true) { while (true) if (true) break; else print 1; print 2; }
NestedBreakIf ==
    Prog(<< While(4101, True(4102),
                  Block(4103, << While(4104, True(4105),
                                       If(4106, True(4107), Break(4108),
                                          PrintStmt(4109, Num(4110, 1)))),
                                 PrintStmt(4111, Num(4112, 2)) >>)) >>, << >>, << >>)

\* while (true) if (true) { while (true) break; print 2; }
NestedBreakLast ==
    Prog(<< While(4201, True(4202),
                  If(4203, True(4204),
                     Block(4205, << PrintStmt(4206, Num(4207, 1)),
                                    While(4208, True(4209), Break(4210)) >>),
                     NoNode)) >>, << >>, << >>)

\* fun f() { print 1; print 2; return true; }
\* while (f()) break; print 3;
BreakThenCall ==
    Prog(<< While(4301, Call(4302, Literal(4303, FunV(1)), << >>), Break(4304)),
            PrintStmt(4305, Num(4306, 3)) >>,
         << LoxFunction(Function(4350, "f", << >>,
                << PrintStmt(4351, Num(4352, 1)), PrintStmt(4353, Num(4354, 2)),
                   Return(4355, True(4356)) >>), Globals, FALSE) >>,
         << >>)

Programs ==
    << BreakThenCall, NestedBreak, NestedBreakIf, NestedBreakLast, BreakInBlock, BreakInIf, BreakBare, NestedRead, LocalAssign, NestedTwice,
       Logicals, NotCallable, Calls, Clock, DupParams, Counter, MakeCounter,
       InitReturn, InitPlain, InitValue, ClassStmt, ClassSuper, ClassSuperBad,
       FunScope, Unreferenced, NoProperty, AssignGlobal, AssignChain, Properties,
       SuperCall, SuperBare, ErrorInBlock, ShowTwice, OwnInitializerBlock, OwnInitializerFun,
       OwnInitializerShadow, ReferenceAfter, OwnInitializerGlobal,
       DupVarVar, DupVarFun, DupParamVar, DupTwoParams, GlobalTwice,
       ReturnTop, ReturnTopBare, ReturnTopNested, ReturnTopLoop, ReturnInFun,
       ReturnBareInFun, ReturnValueInInit, ReturnBareInInit,
       ThisTop, ThisInFun, SuperTop, SuperNoSuperclass, ThisInMethod, SuperInMethod,
       NestedFunctions, ReturnAfterFunction >>

\* the operand values of the Binary programs: one fun f() {}, one class C {}
\* and one instance of C besides nil, booleans, numbers and strings
Operands ==
    { NilV, BoolV(TRUE), BoolV(FALSE), NumV(0), NumV(1), StrV(<< "1" >>),
      StrV(<< "x" >>), FunV(1), ClassV(1), InstV(1), ClockV }

\* TokenType of the operators visitBinary handles
Operators ==
    { "EQUAL_EQUAL", "BANG_EQUAL", "PLUS", "MINUS", "STAR", "SLASH",
      "GREATER", "GREATER_EQUAL", "LESS", "LESS_EQUAL" }

\* print l op r;
BinaryProgram(l, op, r) ==
    ProgWith(<< PrintStmt(3001, Binary(3002, Literal(3003, l), op, Literal(3004, r))) >>,
             << LoxFunction(Function(3050, "f", << >>, << >>), Globals, FALSE) >>,
             << LoxClass("C", << >>, None) >>,
             << [klass |-> 1, fields |-> << >>] >>)

BinaryPrograms == { BinaryProgram(l, op, r) : l \in Operands, op \in Operators, r \in Operands }

\* print v.x; v.x = 1;   and   v.x = 1; print v.x;
PropertyPrograms ==
    { ProgWith(IF getFirst
               THEN << PrintStmt(3101, Get(3102, Literal(3103, v), "x")),
                       Expression(3104, Set(3105, Literal(3106, v), "x", Num(3107, 1))) >>
               ELSE << Expression(3104, Set(3105, Literal(3106, v), "x", Num(3107, 1))),
                       PrintStmt(3101, Get(3102, Literal(3103, v), "x")) >>,
               << LoxFunction(Function(3050, "f", << >>, << >>), Globals, FALSE) >>,
               << LoxClass("C", << >>, None) >>,
               << [klass |-> 1, fields |-> << >>] >>) : v \in Operands, getFirst \in BOOLEAN }

\* 3.5 as a Python float
ThreeAndHalf == [t |-> "num", v |-> 3, fraction |-> << "5" >>]

\* the values printed: print v;
PrintValues ==
    { NilV, BoolV(TRUE), BoolV(FALSE), NumV(0), NumV(3), NumV(10), ThreeAndHalf,
      StrV(<< "a" >>), StrV(<< "3", ".", "0" >>), StrV(<< "v", "1", ".", "0" >>),
      StrV(<< ".", "0" >>), StrV(<< "n", "i", "l" >>) }

PrintPrograms == { Prog(<< PrintStmt(3901, Literal(3902, v)) >>, << >>, << >>) : v \in PrintValues }

\* the declarations of a in a block: var a = 1;  fun a(p) { print p; }
\* fun a(p) {}  var a = a = 1;  fun a(p) { print p; a(1); }
ScopeDeclarations ==
    { Var(4402, "a", Num(4403, 1)),
      Function(4402, "a", << "p" >>, << PrintStmt(4403, Variable(4404, "p")) >>),
      Function(4402, "a", << "p" >>, << >>),
      Var(4402, "a", Assign(4403, "a", Num(4404, 1))),
      Function(4402, "a", << "p" >>,
               << PrintStmt(4403, Variable(4404, "p")),
                  Expression(4405, Call(4406, Variable(4407, "a"), << Num(4408, 1) >>)) >>) }

\* what follows the declaration in the block: print 1;  print a;  a = 2;
\* print -a;  print (a);  print a.x;  a.x = 1;  { print a; }  a();
\* if (a) print 1;  print 1 + a;  fun g() { print a; }  var b = a;
\* { fun g() { print a; } g(); }
ScopeUses ==
    { PrintStmt(4410, Num(4411, 1)),
      PrintStmt(4410, Variable(4411, "a")),
      Expression(4410, Assign(4411, "a", Num(4412, 2))),
      PrintStmt(4410, Unary(4411, "MINUS", Variable(4412, "a"))),
      PrintStmt(4410, Grouping(4411, Variable(4412, "a"))),
      PrintStmt(4410, Get(4411, Variable(4412, "a"), "x")),
      Expression(4410, Set(4411, Variable(4412, "a"), "x", Num(4413, 1))),
      Block(4410, << PrintStmt(4411, Variable(4412, "a")) >>),
      Expression(4410, Call(4411, Variable(4412, "a"), << >>)),
      If(4410, Variable(4411, "a"), PrintStmt(4412, Num(4413, 1)), NoNode),
      PrintStmt(4410, Binary(4411, Num(4412, 1), "PLUS", Variable(4413, "a"))),
      Function(4410, "g", << >>, << PrintStmt(4411, Variable(4412, "a")) >>),
      Var(4410, "b", Variable(4411, "a")),
      Block(4410, << Function(4411, "g", << >>, << PrintStmt(4412, Variable(4413, "a")) >>),
                     Expression(4414, Call(4415, Variable(4416, "g"), << >>)) >>) }

\* { declaration use }
ScopePrograms ==
    { Prog(<< Block(4401, << d, u >>) >>, << >>, << >>) :
        d \in ScopeDeclarations, u \in ScopeUses }

ProgramSet ==
    { Programs[p] : p \in 1..Len(Programs) } \cup BinaryPrograms \cup PropertyPrograms
        \cup PrintPrograms \cup ScopePrograms

(***************************************************************************)
(* The token lists of the model.  A source is written as its lexemes; the  *)
(* token of a lexeme has the type TokenType.py and Scanner.keywords give   *)
(* it, and scanTokens ends the list with EOF.                              *)
(***************************************************************************)
\* the token of the keyword break.  Parser.statement matches the token type
\* BREAK, which neither TokenType.py nor Scanner.keywords has: it is taken
\* from the keywords of the language
BreakToken == LoxToken("BREAK", "break", NilV)

\* the token of one lexeme: a keyword or operator, a one digit number, or an
\* identifier
TokenFor(lexeme) ==
    IF lexeme = "break" THEN BreakToken
    ELSE IF lexeme \in DOMAIN TokenTypes THEN LoxToken(TokenTypes[lexeme], lexeme, NilV)
    ELSE IF DigitValue(lexeme) >= 0 THEN LoxToken("NUMBER", lexeme, NumV(DigitValue(lexeme)))
    ELSE LoxToken("IDENTIFIER", lexeme, NilV)

TokenList(lexemes) ==
    [i \in 1..Len(lexemes) + 1 |->
        IF i <= Len(lexemes) THEN TokenFor(lexemes[i]) ELSE LoxToken("EOF", "", NilV)]

\* a source of the model: the family it belongs to, its parameters (a number,
\* a list of words) and its lexemes
Source(family, n, ctx, text) == [family |-> family, n |-> n, ctx |-> ctx, text |-> text]

\* a statement put in the body of a construct
Contexts == {"block", "if", "else", "while", "for", "fun", "method"}
Wrapped(context, text) ==
    CASE context = "block" -> << "{" >> \o text \o << "}" >>
      [] context = "if" -> << "if", "(", "false", ")" >> \o text
      [] context = "else" -> << "if", "(", "true", ")", "print", "1", ";", "else" >> \o text
      [] context = "while" -> << "while", "(", "false", ")" >> \o text
      [] context = "for" -> << "for", "(", ";", "false", ";", ")" >> \o text
      [] context = "fun" -> << "{", "fun", "f", "(", ")", "{" >> \o text \o << "}", "}" >>
      [] context = "method" ->
            << "{", "class", "A", "{", "m", "(", ")", "{" >> \o text \o << "}", "}", "}" >>

\* break; inside the contexts ctx, the outermost first
RECURSIVE Nested(_, _)
Nested(ctx, text) ==
    IF ctx = << >> THEN text ELSE Wrapped(Head(ctx), Nested(Tail(ctx), text))

MaxNesting == 3
BreakSources ==
    { Source("break", 0, ctx, Nested(ctx, << "break", ";" >>)) :
        ctx \in UNION { [1..n -> Contexts] : n \in 0..MaxNesting } }

\* malformed statements between well-formed ones
RecoveryTexts ==
    << << "print", ";", "print", "1", ";", "var", "=", "2", ";", "print", "3", ";" >>,
       << "1", "2", "print", "3", ";" >>,
       << "(", "1", ";", "2" >>,
       << "{", "1", "+" >>,
       << "print", "var", "x", "=", "1", ";", "print", "2", ";" >>,
       << "break", ";", "print", "1", ";" >>,
       << "1", "=", "2", ";", "x", "+", ";", "fun", "(", ")", "{", "}", "print", "4", ";" >>,
       << "{", "var", "1", ";", "print", "2", ";", "}", "print", "3", ";" >>,
       << "1", "2", "class", "A", "{", "}", "!", ";", "if", "(", "true", ")", "print", "5", ";" >>,
       << "1", "+", "for", "(", ";", ";", ")", "{", "}", "+", "while", "(", "false", ")",
          "print", "6", ";", "-", "return", "7", ";" >> >>
RecoverySources ==
    { Source("recovery", n, << >>, RecoveryTexts[n]) : n \in DOMAIN RecoveryTexts }

\* n times the lexeme, separated by commas
RECURSIVE Listed(_, _)
Listed(n, lexeme) ==
    IF n = 0 THEN << >>
    ELSE IF n = 1 THEN << lexeme >>
    ELSE Listed(n - 1, lexeme) \o << ",", lexeme >>

\* fun f(a, ..., a) {}  and  class A { m(a, ..., a) {} }  and  print f(1, ..., 1);
LimitSources ==
    { Source("parameters", n, << >>,
             << "fun", "f", "(" >> \o Listed(n, "a") \o << ")", "{", "}" >>) :
        n \in 0..Max_Args + 2 }
    \cup { Source("method", n, << >>,
                  << "class", "A", "{", "m", "(" >> \o Listed(n, "a")
                     \o << ")", "{", "}", "}" >>) : n \in 0..Max_Args + 2 }
    \cup { Source("arguments", n, << >>,
                  << "print", "f", "(" >> \o Listed(n, "1") \o << ")", ";" >>) :
        n \in 0..Max_Args + 2 }

\* print f(1, 2);  print f(1 2);  print f(1,);  print f();  print f(,);
\* print f(1,, 2);  print f(1
ArgumentTexts ==
    << << "print", "f", "(", "1", ",", "2", ")", ";" >>,
       << "print", "f", "(", "1", "2", ")", ";" >>,
       << "print", "f", "(", "1", ",", ")", ";" >>,
       << "print", "f", "(", ")", ";" >>,
       << "print", "f", "(", ",", ")", ";" >>,
       << "print", "f", "(", "1", ",", ",", "2", ")", ";" >>,
       << "print", "f", "(", "1" >> >>
ArgumentSources ==
    { Source("call", n, << >>, ArgumentTexts[n]) : n \in DOMAIN ArgumentTexts }

\* the left sides an `=` may follow, and the statements  target = 1;
\* a = b = c;  a.b = c = 1;  a = 1 = 2;  print a = 1;
Targets ==
    << << "a" >>, << "a", ".", "b" >>, << "f", "(", ")", ".", "b" >>,
       << "1" >>, << "nil" >>, << "(", "a", ")" >>, << "(", "a", ".", "b", ")" >>,
       << "f", "(", ")" >>, << "a", "+", "b" >>, << "-", "a" >>, << "a", "or", "b" >>,
       << "this" >>, << "a", "==", "b" >> >>
AssignSources ==
    { Source("assign", n, << >>, << "x", ";" >> \o Targets[n] \o << "=", "1", ";" >>) :
        n \in DOMAIN Targets }
    \cup { Source("chain", 1, << >>, << "x", ";", "a", "=", "b", "=", "c", ";" >>),
           Source("chain", 2, << >>, << "x", ";", "a", ".", "b", "=", "c", "=", "1", ";" >>),
           Source("chain", 3, << >>, << "x", ";", "a", "=", "1", "=", "2", ";" >>) }

\* for (init; cond; incr) { print 1; }  with each of the three parts present or
\* missing: ctx names the parts that are there
ForParts ==
    { << init, cond, incr >> : init \in {"", "var", "expr"}, cond \in {"", "cond"},
                               incr \in {"", "incr"} }
ForText(parts) ==
    << "for", "(" >>
    \o (CASE parts[1] = "var" -> << "var", "i", "=", "0", ";" >>
          [] parts[1] = "expr" -> << "0", ";" >>
          [] OTHER -> << ";" >>)
    \o (IF parts[2] = "cond" THEN << "false", ";" >> ELSE << ";" >>)
    \o (IF parts[3] = "incr" THEN << "2", ")" >> ELSE << ")" >>)
    \o << "{", "print", "1", ";", "}" >>
ForSources == { Source("for", 0, parts, ForText(parts)) : parts \in ForParts }

\* print -1;  print !true;  print --1;  print !nil;  print -nil;  print -(1 + 1);
UnaryTexts ==
    << << "print", "-", "1", ";" >>,
       << "print", "!", "true", ";" >>,
       << "print", "-", "-", "1", ";" >>,
       << "print", "!", "nil", ";" >>,
       << "print", "-", "nil", ";" >>,
       << "print", "-", "(", "1", "+", "1", ")", ";" >> >>
UnarySources == { Source("unary", n, << >>, UnaryTexts[n]) : n \in DOMAIN UnaryTexts }

Sources ==
    BreakSources \cup RecoverySources \cup LimitSources \cup ArgumentSources
    \cup AssignSources \cup ForSources \cup UnarySources

(***************************************************************************)
(* The interpreter: Interpreter(error_report), optionally                  *)
(* Resolver(interpreter, error_report).resolve(program), then              *)
(* interpreter.interpret(program).                                         *)
(***************************************************************************)
NoCall == [op |-> "none"]

\* no Resolver has walked the program yet
NotResolved == [ran |-> FALSE, err |-> "none", marks |-> << >>,
                current_function |-> "NOFUN", scopes |-> << >>]

\* Interpreter.__init__: the globals with the break flag and clock
InitialGlobals ==
    define(define(<< NewEnvironment(None) >>, Globals, CONTINUE, BoolV(TRUE)),
           Globals, "clock", ClockV)

\* the state after Interpreter(error_report), with the objects the host built
Constructed(prog) ==
    /\ funs = prog.funs
    /\ classes = prog.classes
    /\ insts = prog.insts
    /\ envs = InitialGlobals \o prog.envs
    /\ environment = Globals
    /\ locals = prog.locals
    /\ resolution = NotResolved
    /\ scanner = NoScanner
    /\ stack = << >>
    /\ output = << >>
    /\ reports = << >>
    /\ evlog = << >>
    /\ runlog = << >>
    /\ brk = [idx |-> 0, act |-> 0]
    /\ last = NoCall

\* either the host hands a program to the interpreter, or plox.run_lox has
\* made a Parser for the tokens of a source
Init ==
    \/ \E prog \in ProgramSet :
          /\ Constructed(prog)
          /\ program = prog.stmts
          /\ parser = NoParser
          /\ ctl = Idle("ready")
    \/ \E source \in Sources :
          /\ Constructed(Prog(<< >>, << >>, << >>))
          /\ program = << >>
          /\ parser = [NewParser(TokenList(source.text)) EXCEPT !.source = source]
          /\ ctl = Idle("source")

\* results.append(d), and the except clause of parse for a ParseError that
\* reaches it: reported, results = None
appended(d) ==
    IF d.exc = "ParseError"
    THEN [reported(d) EXCEPT !.val = NoNode, !.results = << >>, !.phase = "failed"]
    ELSE IF d.exc = "Stalled" THEN [d EXCEPT !.phase = "stalled"]
    ELSE [d EXCEPT !.results = Append(@, d.val), !.val = NoNode]

\* parse(): while not self.isAtEnd(): results.append(self.declaration())
parse ==
    /\ parser.phase = "parsing" /\ ~isAtEnd(parser)
    /\ parser' = appended(iterated(parser, declaration(parser, FALSE)))
    /\ UNCHANGED << heap, environment, locals, resolution, scanner, program, stack, ctl, output,
                    reports, hist >>

\* parse(): return results
parseReturn ==
    /\ parser.phase = "parsing" /\ isAtEnd(parser)
    /\ parser' = [parser EXCEPT !.phase = "parsed"]
    /\ UNCHANGED << heap, environment, locals, resolution, scanner, program, stack, ctl, output,
                    reports, hist >>

\* plox.run_lox after parser.parse(): nothing more after a reported error or
\* for an empty program; a program that is one expression statement goes to
\* one_line_program, which is not followed here; any other program is handed
\* to interpret()
run_lox ==
    /\ parser.phase = "parsed"
    /\ IF parser.reports # << >> \/ Len(parser.results) = 0
       THEN /\ parser' = [parser EXCEPT !.phase = "stopped"]
            /\ UNCHANGED << program, ctl >>
       ELSE IF Len(parser.results) = 1 /\ parser.results[1].k = "Expression"
       THEN /\ parser' = [parser EXCEPT !.phase = "one_line"]
            /\ UNCHANGED << program, ctl >>
       ELSE /\ parser' = [parser EXCEPT !.phase = "handed"]
            /\ program' = parser.results
            /\ ctl' = Idle("ready")
    /\ UNCHANGED << heap, environment, locals, resolution, scanner, stack, output, reports, hist >>

\* Resolver(interpreter, error_report).resolve(program), run by the host before
\* interpret(): every resolveLocal hands a depth to Interpreter.resolve, and a
\* ResolutionError ends the walk and is reported
resolveProgram ==
    /\ ctl.op = "idle" /\ ctl.msg = "ready" /\ ~resolution.ran
    /\ LET r == resolve(program) IN
       /\ locals' = [id \in (DOMAIN r.locals) \cup (DOMAIN locals) |->
                        IF id \in DOMAIN r.locals THEN r.locals[id] ELSE locals[id]]
       /\ resolution' = [ran |-> TRUE, err |-> r.err, marks |-> r.marks,
                          current_function |-> r.current_function, scopes |-> r.scopes]
    /\ UNCHANGED << heap, environment, scanner, parser, program, stack, ctl, output, reports, hist >>

Next ==
    \/ parse \/ parseReturn \/ run_lox
    \/ resolveProgram
    \/ interpret \/ interpretLoop \/ interpretExcept \/ Propagate
    \/ execute \/ executeReturn
    \/ visitExpression \/ visitExpressionReturn
    \/ visitPrint \/ visitPrintValue
    \/ visitVar \/ visitVarDefine
    \/ visitFunction
    \/ visitReturn \/ visitReturnRaise
    \/ visitBreak
    \/ visitBlock \/ visitBlockReturn
    \/ execute_blockNext \/ execute_blockExit \/ execute_blockFinally
    \/ visitIf \/ visitIfBranch \/ visitIfReturn
    \/ visitWhile \/ visitWhileTest \/ visitWhileAgain
    \/ visitClass \/ visitClassSuperclass \/ visitClassDeclare
    \/ evaluate
    \/ visitLiteral
    \/ visitGrouping \/ visitGroupingReturn
    \/ visitLogical \/ visitLogicalLeft \/ visitLogicalRight
    \/ visitVariable
    \/ visitAssign \/ visitAssignStore
    \/ visitCall \/ visitCallCallee \/ visitCallArguments \/ visitCallArity
    \/ visitCallReturn
    \/ builtinClockCall
    \/ LoxFunctionCall \/ LoxFunctionReturn
    \/ LoxClassCall \/ LoxClassReturn
    \/ visitGet \/ visitGetProperty
    \/ visitSet \/ visitSetObject \/ visitSetValue
    \/ visitThis \/ visitSuper
    \/ visitBinary \/ visitBinaryLeft \/ visitBinaryRight
    \/ visitUnary \/ visitUnaryRight

Spec == Init /\ [][Next]_vars

(***************************************************************************)
(* The Environment API on its own: chains of up to MaxChain Environments   *)
(* with any bindings of the names, and calls of define, assign, get, getAt *)
(* and assignAt on the innermost Environment with a name Token.  `last`    *)
(* records the call, the heap before it and its outcome; every heap is an  *)
(* initial state, so one call is made from each.                           *)
(***************************************************************************)
EnvNames == {"a", "b"}
EnvValues == {NumV(2)}

\* an Environment holding held[n] under each name n with held[n] # 0
EnvironmentWith(enclosing, held) ==
    LET names == {n \in DOMAIN held : held[n] # 0} IN
    [enclosing |-> enclosing,
     vals |-> IF names = {} THEN << >> ELSE [n \in names |-> NumV(held[n])]]

InitEnv ==
    /\ \E len \in 1..MaxChain : \E held \in [1..len -> [EnvNames -> 0..2]] :
          envs = [i \in 1..len |-> EnvironmentWith(i - 1, held[i])]
    /\ funs = << >> /\ classes = << >> /\ insts = << >>
    /\ environment = Globals
    /\ locals = << >>
    /\ resolution = NotResolved
    /\ scanner = NoScanner
    /\ parser = NoParser
    /\ program = << >>
    /\ stack = << >>
    /\ ctl = Idle("api")
    /\ output = << >> /\ reports = << >>
    /\ evlog = << >> /\ runlog = << >>
    /\ brk = [idx |-> 0, act |-> 0]
    /\ last = NoCall

Called(op, e, name, value, depth, r) ==
    [op |-> op, e |-> e, name |-> name, value |-> value, depth |-> depth,
     before |-> envs, exc |-> r.exc, val |-> r.val]

\* e.define(name, value)
CallDefine ==
    /\ ctl.msg = "api" /\ last.op = "none"
    /\ \E e \in {Len(envs)}, name \in EnvNames, value \in EnvValues :
          /\ envs' = define(envs, e, name, value)
          /\ last' = Called("define", e, name, value, 0, Ok(envs, NilV))
    /\ UNCHANGED interpVars

\* e.assign(Token(name), value)
CallAssign ==
    /\ ctl.msg = "api" /\ last.op = "none"
    /\ \E e \in {Len(envs)}, name \in EnvNames, value \in EnvValues :
          LET r == assign(envs, e, Token(name), value) IN
          /\ envs' = r.h
          /\ last' = Called("assign", e, name, value, 0, r)
    /\ UNCHANGED interpVars

\* e.get(Token(name))
CallGet ==
    /\ ctl.msg = "api" /\ last.op = "none"
    /\ \E e \in {Len(envs)}, name \in EnvNames :
          LET r == get(envs, e, Token(name)) IN
          /\ envs' = r.h
          /\ last' = Called("get", e, name, NilV, 0, r)
    /\ UNCHANGED interpVars

\* e.getAt(depth, Token(name))
CallGetAt ==
    /\ ctl.msg = "api" /\ last.op = "none"
    /\ \E e \in {Len(envs)}, name \in EnvNames, depth \in 0..MaxChain :
          LET r == getAt(envs, e, depth, Token(name)) IN
          /\ depth <= e + 1
          /\ envs' = r.h
          /\ last' = Called("getAt", e, name, NilV, depth, r)
    /\ UNCHANGED interpVars

\* e.assignAt(depth, Token(name), value)
CallAssignAt ==
    /\ ctl.msg = "api" /\ last.op = "none"
    /\ \E e \in {Len(envs)}, name \in EnvNames, value \in EnvValues,
          depth \in 0..MaxChain :
          LET r == assignAt(envs, e, depth, Token(name), value) IN
          /\ depth <= e + 1
          /\ envs' = r.h
          /\ last' = Called("assignAt", e, name, value, depth, r)
    /\ UNCHANGED interpVars

NextEnv == CallDefine \/ CallAssign \/ CallGet \/ CallGetAt \/ CallAssignAt

SpecEnv == InitEnv /\ [][NextEnv]_vars

(***************************************************************************)
(* The Scanner on its own: plox.run_lox makes Scanner(lox_code, lex_error) *)
(* and calls scanTokens().  The sources are every string of up to          *)
(* MaxSource characters of Alphabet, and the words: every keyword of the   *)
(* language and its neighbours (one character more, one less).             *)
(***************************************************************************)
MaxSource == 4
Alphabet == {"!", "=", "/", NEWLINE, QUOTE, "1", ".", "a", "@", SuperscriptTwo}

break == << "b", "r", "e", "a", "k" >>
Words == (DOMAIN keywords) \cup {break}
Neighbours(word) ==
    {word, word \o << "s" >>, << "_" >> \o word, word \o << "1" >>,
     SubSeq(word, 1, Len(word) - 1), word \o << " " >> \o word}

ScanSources ==
    (UNION {[1..n -> Alphabet] : n \in 0..MaxSource})
        \cup UNION {Neighbours(word) : word \in Words}

InitScan ==
    /\ \E source \in ScanSources : scanner = NewScanner(source)
    /\ envs = InitialGlobals
    /\ funs = << >> /\ classes = << >> /\ insts = << >>
    /\ environment = Globals
    /\ locals = << >>
    /\ resolution = NotResolved
    /\ parser = NoParser
    /\ program = << >>
    /\ stack = << >>
    /\ ctl = Idle("scan")
    /\ output = << >> /\ reports = << >>
    /\ evlog = << >> /\ runlog = << >>
    /\ brk = [idx |-> 0, act |-> 0]
    /\ last = NoCall

\* an exception of scanToken leaves scanTokens
left(s) == IF s.exc # "none" THEN [s EXCEPT !.phase = "raised"] ELSE s

\* scanTokens: while not self.isAtEnd(): self.start = self.current; self.scanToken()
scanTokens ==
    /\ scanner.phase = "scanning" /\ ~sourceAtEnd(scanner)
    /\ scanner' = left(scanToken([scanner EXCEPT !.start = scanner.current]))
    /\ UNCHANGED << heap, environment, locals, resolution, parser, program, stack, ctl, output,
                    reports, hist >>

\* scanTokens: append a final EOF token; return self.tokens
scanTokensReturn ==
    /\ scanner.phase = "scanning" /\ sourceAtEnd(scanner)
    /\ scanner' = [scanner EXCEPT !.tokens = Append(@, LoxToken("EOF", << >>, NilV)),
                                  !.phase = "scanned"]
    /\ UNCHANGED << heap, environment, locals, resolution, parser, program, stack, ctl, output,
                    reports, hist >>

NextScan == scanTokens \/ scanTokensReturn

SpecScan == InitScan /\ [][NextScan]_vars

(***************************************************************************)
(* The parser alone on malformed input: Parser(tokens, error_report) for   *)
(* every short list over a token alphabet and for the damaged copies of    *)
(* two well-formed declarations, then parse() and what plox.run_lox does   *)
(* with the result.                                                        *)
(***************************************************************************)
MaxTokens == 3
TokenAlphabet == {"{", "}", "(", ")", ",", ";", "=", "f", "1", "fun", "class", "print"}

ClassText ==
    << "class", "f", "{", "f", "(", "f", ",", "f", ")", "{", "1", ";", "}",
       "f", "(", ")", "{", "}", "}" >>
FunText ==
    << "fun", "f", "(", "f", ",", "f", ")", "{", "f", "(", "1", ",", "1", ")", ";",
       "{", "print", "1", ";", "}", "}" >>

\* a text cut after i tokens, without its token i, with another token at i
Damaged(text) ==
    { SubSeq(text, 1, i) : i \in 0..Len(text) }
    \cup { SubSeq(text, 1, i - 1) \o SubSeq(text, i + 1, Len(text)) : i \in 1..Len(text) }
    \cup { [text EXCEPT ![i] = a] : i \in 1..Len(text), a \in TokenAlphabet }

ParseSources ==
    { Source("tokens", Len(text), << >>, text) :
        text \in UNION { [1..n -> TokenAlphabet] : n \in 0..MaxTokens } }
    \cup { Source("damaged", Len(text), << >>, text) :
             text \in Damaged(ClassText) \cup Damaged(FunText) }

InitParse ==
    \E source \in ParseSources :
       /\ Constructed(Prog(<< >>, << >>, << >>))
       /\ program = << >>
       /\ parser = [NewParser(TokenList(source.text)) EXCEPT !.source = source]
       /\ ctl = Idle("source")

NextParse == parse \/ parseReturn \/ run_lox

SpecParse == InitParse /\ [][NextParse]_vars

(***************************************************************************)
(* Properties                                                              *)
(***************************************************************************)

\* C1: when execute() of a statement is left - its visitor returned, or a
\* return signal or an error is passing through it - self.environment is the
\* environment that was current when the statement began; once interpret() is
\* over, normally or by an exception, it is the globals.
EnvironmentRestored ==
    /\ (TopIs("execute") /\ ctl.op \in {"ret", "raise"}) => environment = Top.env0
    /\ (stack = << >> /\ (ctl.op = "raise" \/ (ctl.op = "idle" /\ ctl.msg = "returned")))
          => environment = Globals

\* a return signal passes through a block statement whose scope was in force
\* when it was raised, and the environment is back to the one of the call
ReturnLeavesBlock ==
    /\ TopIs("execute") /\ Top.node.k = "Block"
    /\ ctl.op = "raise" /\ ctl.exc = "ReturnUnwinder"
    /\ environment = Top.env0
    /\ environment # Globals

\* the visitWhile activation a break ran in is still on the stack
BreakPending ==
    /\ brk.idx # 0 /\ Len(stack) >= brk.idx
    /\ stack[brk.idx].f = "visitWhile"
    /\ stack[brk.idx].act = brk.act

\* C2: after a break ran in the body of a while loop, no statement is executed
\* (no further statement of the body, no further iteration) until that loop
\* has been left.
BreakLeavesLoop == BreakPending => ctl.op # "exec"

\* the name of the reference is bound exactly loc[node.id] hops up from e
DepthReachesName(h, e, loc, node) ==
    LET a == ancestor(h, e, loc[node.id]) IN
    /\ a.exc = "none" /\ a.env # None
    /\ Has(h, a.env, node.name)

\* C3: in a program that resolves without error, whenever a Variable or Assign
\* that the resolver recorded with depth d is evaluated, the environment d
\* parent links up from self.environment contains its name.
ResolvedDepthReachesName ==
    (resolve(program).err = "none" /\ locals = resolve(program).locals) =>
        /\ (ctl.op = "visit" /\ ctl.node.k = "Variable" /\ ctl.node.id \in DOMAIN locals)
              => DepthReachesName(envs, environment, locals, ctl.node)
        /\ (TopIs("visitAssign") /\ ctl.op = "ret" /\ Top.node.id \in DOMAIN locals)
              => DepthReachesName(envs, environment, locals, Top.node)

\* a reference two scopes up is being evaluated, and the name is there
ReadTwoScopesUp ==
    /\ ctl.op = "visit" /\ ctl.node.k = "Variable"
    /\ ctl.node.id \in DOMAIN locals /\ locals[ctl.node.id] = 2
    /\ DepthReachesName(envs, environment, locals, ctl.node)

\* the body of a LoxFunction.call is about to start
BodyStarts ==
    /\ Len(stack) >= 2
    /\ Top.f = "execute_block" /\ Top.i = 0 /\ ctl.op = "step"
    /\ stack[Len(stack) - 1].f = "LoxFunction.call"

\* C4: when the body of a user function starts, self.environment is a new
\* environment whose parent is the function's closure and which binds exactly
\* the declared parameter names, the i-th one to the i-th argument.
CallBindsParameters ==
    BodyStarts =>
        LET caller == stack[Len(stack) - 1]
            fn == funs[caller.fn]
            params == fn.declaration.params
        IN /\ environment = caller.env
           /\ environment # Top.save_context
           /\ envs[environment].enclosing = fn.closure
           /\ DOMAIN envs[environment].vals = {params[i] : i \in 1..Len(params)}
           /\ \A i \in 1..Len(params) : envs[environment].vals[params[i]] = caller.args[i]

\* an Assign whose name is bound in the chain is about to store its value,
\* inside the call of a function
AssignsInCall ==
    /\ TopIs("visitAssign") /\ ctl.op = "ret"
    /\ \E i \in 1..Len(stack) : stack[i].f = "LoxFunction.call"
    /\ fetch(envs, environment, Top.node.name).exc = "none"

\* C5: an assignment made during the call of a function to a variable of its
\* closure is stored in the shared environment: it yields its value and the
\* variable then holds it, for this and every later call.
ClosureAssignmentStored ==
    [][AssignsInCall =>
          /\ ctl'.op = "ret" /\ ctl'.val = ctl.val
          /\ fetch(envs', environment, Top.node.name).val = ctl.val]_vars

\* an Assign whose target is bound in the chain has evaluated its right-hand
\* side and is about to store the value
AssignHasValue ==
    /\ TopIs("visitAssign") /\ ctl.op = "ret"
    /\ fetch(envs, environment, Top.node.name).exc = "none"

\* C11: an assignment expression evaluates to the value of its right-hand
\* side, for a global and for a resolved local target alike, so the outer
\* assignment of `a = b = c` receives c's value from the inner one.
AssignmentYieldsValue ==
    [][AssignHasValue =>
          /\ ctl'.op = "ret" /\ ctl'.node = Top.node /\ ctl'.val = ctl.val]_vars

\* a Binary with one of the operators ops has evaluated both operands: Top.lhs
\* and ctl.val
BinaryReady(ops) ==
    /\ TopIs("visitBinary") /\ Top.pc = "right" /\ ctl.op = "ret"
    /\ Top.node.operator \in ops

BothNumbers == Top.lhs.t = "num" /\ ctl.val.t = "num"

\* Lox equality as specified: the same tag and the same value or identity
SameTagSameValue(l, r) == l.t = r.t /\ l.v = r.v

\* C12: == is true exactly when both operands have the same tag and the same
\* value (identity for callables and instances), != is its negation, and
\* neither raises an error.
EqualityByTag ==
    [][BinaryReady({"EQUAL_EQUAL", "BANG_EQUAL"}) =>
          /\ ctl'.op = "ret"
          /\ ctl'.val = BoolV((Top.node.operator = "EQUAL_EQUAL")
                                  <=> SameTagSameValue(Top.lhs, ctl.val))]_vars

\* C13: + yields the sum of two numbers, the concatenation of two strings and
\* a runtime error for every other pair of operands.
PlusNumbersOrStrings ==
    [][BinaryReady({"PLUS"}) =>
          IF BothNumbers THEN ctl'.op = "ret" /\ ctl'.val = NumV(Top.lhs.v + ctl.val.v)
          ELSE IF Top.lhs.t = "str" /\ ctl.val.t = "str"
          THEN ctl'.op = "ret" /\ ctl'.val = StrV(Top.lhs.v \o ctl.val.v)
          ELSE ctl'.op = "raise" /\ ctl'.exc = "EvaluationError"]_vars

\* C14: the arithmetic and ordering operators yield a value only for two
\* numbers; with any other operand the evaluation ends in a runtime error.
NumbersOnly ==
    [][(BinaryReady({"MINUS", "STAR", "SLASH", "GREATER", "GREATER_EQUAL",
                     "LESS", "LESS_EQUAL"}) /\ ~BothNumbers) =>
          ctl'.op = "raise" /\ ctl'.exc = "EvaluationError"]_vars

\* the program is `print x / 0;` for a number x
DividesByZero ==
    /\ Len(program) = 1 /\ program[1].k = "Print" /\ program[1].expression.k = "Binary"
    /\ program[1].expression.operator = "SLASH"
    /\ program[1].expression.left.value.t = "num"
    /\ program[1].expression.right.value = NumV(0)

DivisionStep ==
    (BinaryReady({"SLASH"}) /\ BothNumbers /\ ctl.val.v = 0) =>
        ctl' = Exc("EvaluationError", Top.node, NilV, "Cannot divide by zero")

DivisionReported ==
    (DividesByZero /\ ctl.op = "idle" /\ ctl.msg = "returned") =>
        /\ reports = << [token |-> program[1].expression.id,
                         message |-> "Cannot divide by zero"] >>
        /\ output = << >>

\* C15: dividing a number by zero raises the runtime error "Cannot divide by
\* zero" with the operator token; it yields no value, interpret() reports it
\* to the error sink and returns.
DivisionByZeroIsError == [][DivisionStep]_vars /\ []DivisionReported

\* interpret() returned after reporting the division 1 / 0
DivisionByZeroReported ==
    /\ DividesByZero /\ program[1].expression.left.value = NumV(1)
    /\ ctl.op = "idle" /\ ctl.msg = "returned"
    /\ Len(reports) = 1 /\ reports[1].message = "Cannot divide by zero"

\* the classes from c up its superclass chain, nearest first
RECURSIVE Lineage(_)
Lineage(c) == IF c = None THEN << >> ELSE << c >> \o Lineage(classes[c].super_class)

\* the classes of Lineage(c) that declare a method called name
Declaring(c, name) ==
    { i \in 1..Len(Lineage(c)) : name \in DOMAIN classes[Lineage(c)[i]].methods }

\* a Get has evaluated its object expression to ctl.val
GetReady == TopIs("visitGet") /\ ctl.op = "ret"

\* the value returned is a function created by this step from method m, bound
\* to instance: its closure is a new environment that holds only `this`
BoundTo(m, instance) ==
    /\ ctl'.op = "ret" /\ ctl'.val.t = "fun"
    /\ ctl'.val.v > Len(funs) /\ ctl'.val.v <= Len(funs')
    /\ LET fn == funs'[ctl'.val.v] IN
       /\ fn.declaration = funs[m].declaration
       /\ fn.closure > Len(envs)
       /\ envs'[fn.closure].enclosing = funs[m].closure
       /\ envs'[fn.closure].vals = [n \in {"this"} |-> instance]

PropertyStep ==
    GetReady =>
        IF ctl.val.t # "inst"
        THEN ctl' = Exc("EvaluationError", Top.node, NilV, "Only instances have properties")
        ELSE LET instance == insts[ctl.val.v]
                 name == Top.node.name
                 found == Declaring(instance.klass, name)
             IN IF name \in DOMAIN instance.fields
                THEN ctl' = Ret(Top.node, instance.fields[name])
                ELSE IF found # {}
                THEN LET first == CHOOSE i \in found : \A j \in found : i <= j IN
                     BoundTo(classes[Lineage(instance.klass)[first]].methods[name], ctl.val)
                ELSE ctl' = Exc("EvaluationError", Top.node, NilV, "Undefined property")

\* C16: obj.name on an instance is the field of that name if there is one,
\* else the method found first from the instance's class up its superclasses,
\* as a new function bound to the instance, else an UndefinedProperty error;
\* on any other value it is a Type error.
PropertyLookup == [][PropertyStep]_vars

\* interpret() returned from the program Properties: B's own m was called
\* (2), then the inherited n (3), the field m shadowed the method (the second
\* 5) and the missing z was reported
PropertiesLookedUp ==
    /\ ctl.op = "idle" /\ ctl.msg = "returned"
    /\ Len(program) = 6 /\ program[1].id = 2501
    /\ output = << << "2" >>, << "3" >>, << "5" >>, << "5" >> >>
    /\ reports = << [token |-> 2517, message |-> "Undefined property"] >>

\* a `super.m` is about to be evaluated where the chain binds super to a class
\* and this to an instance
SuperReady ==
    /\ ctl.op = "visit" /\ ctl.node.k = "Super"
    /\ fetch(envs, environment, "super").exc = "none"
    /\ fetch(envs, environment, "super").val.t = "class"
    /\ fetch(envs, environment, "this").exc = "none"

SuperStep ==
    SuperReady =>
        LET superclass == fetch(envs, environment, "super").val.v
            that == fetch(envs, environment, "this").val
            found == Declaring(superclass, ctl.node.method)
        IN IF found # {}
           THEN LET first == CHOOSE i \in found : \A j \in found : i <= j IN
                BoundTo(classes[Lineage(superclass)[first]].methods[ctl.node.method], that)
           ELSE ctl' = Exc("EvaluationError", ctl.node, NilV, "Undefined property")

\* where the depth d of a `super` is recorded, super is bound d environments up
\* and this d-1 environments up
SuperAboveThis ==
    (ctl.op = "visit" /\ ctl.node.k = "Super" /\ ctl.node.id \in DOMAIN locals) =>
        LET d == locals[ctl.node.id] IN
        /\ d >= 1
        /\ ancestor(envs, environment, d).exc = "none"
        /\ Has(envs, ancestor(envs, environment, d).env, "super")
        /\ Has(envs, ancestor(envs, environment, d - 1).env, "this")

\* C17: super.m in a method of a class with a superclass is the method m found
\* from the superclass upward, bound to the instance that `this` denotes, with
\* this one environment inside super; a missing m is an UndefinedProperty error.
SuperLookup == []SuperAboveThis /\ [][SuperStep]_vars

\* an EvaluationError is in flight
RuntimeErrorRaised == ctl.op = "raise" /\ ctl.exc = "EvaluationError"

\* a runtime error in flight stays the same error and leaves every binding as
\* it is, until interpret() hands its token and message to the error sink
ErrorStep ==
    RuntimeErrorRaised =>
        /\ envs' = envs
        /\ output' = output /\ runlog' = runlog
        /\ \/ ctl' = ctl /\ reports' = reports
           \/ /\ reports' = Append(reports, [token |-> ctl.node.id, message |-> ctl.msg])
              /\ ctl'.op = "idle" /\ ctl'.msg = "returned" /\ stack' = << >>
              /\ environment' = Globals

\* the error sink is called for nothing but a runtime error in flight
SinkStep == (reports' # reports) => RuntimeErrorRaised

\* after the one report interpret() has returned: no statement runs any more
ReportedOnce ==
    (reports # << >>) =>
        /\ Len(reports) = 1
        /\ ctl.op = "idle" /\ ctl.msg = "returned" /\ stack = << >>

\* C18: a runtime error ends the program: no later statement is executed, the
\* error sink gets the token and message exactly once, interpret() returns
\* normally and the bindings made before the error stay in the globals.
RuntimeErrorEndsProgram == []ReportedOnce /\ [][ErrorStep /\ SinkStep]_vars

\* ErrorInBlock: the error of `nil.x` was reported, a is still bound in the
\* globals and `print 3;` was not executed
ErrorReportedBindingsKept ==
    /\ Len(program) = 3 /\ program[1].id = 2701
    /\ reports = << [token |-> 2707, message |-> "Only instances have properties"] >>
    /\ Has(envs, Globals, "a") /\ envs[Globals].vals["a"] = NumV(1)
    /\ environment = Globals
    /\ \A i \in 1..Len(runlog) : runlog[i] # 2709

\* the run of the program is over: interpret() returned or an exception left it
RunOver ==
    \/ ctl.op = "idle" /\ ctl.msg = "returned"
    \/ ctl.op = "raise" /\ stack = << >>

\* C19: the program that declares show() in a block, calls it, declares a local
\* `a` and calls it again is accepted by the resolver, and both calls print
\* the value of the global `a`.
ResolverFixesShadowing ==
    (program = ShowTwice.stmts /\ resolution.ran) =>
        /\ resolution.err = "none"
        /\ RunOver => output = << << "global" >>, << "global" >> >>

\* the local programs whose declaration of x refers to x in its initializer
OwnInitializerPrograms ==
    { OwnInitializerBlock.stmts, OwnInitializerFun.stmts, OwnInitializerShadow.stmts }

\* C20: in a local scope a reference to a variable inside its own initializer
\* is the resolve error "Cannot refer to local variable in its own
\* initializer"; a reference after the declaration is accepted, and so is
\* `var x = x;` at global scope.
OwnInitializerIsError ==
    resolution.ran =>
        /\ program \in OwnInitializerPrograms =>
              resolution.err = "Cannot refer to local variable in its own initializer"
        /\ program \in { ReferenceAfter.stmts, OwnInitializerGlobal.stmts } =>
              resolution.err = "none"
        /\ program = ReferenceAfter.stmts => DOMAIN locals = { 2935, 2937 }

\* the resolver ran on { var x = x; } and reported the error
OwnInitializerReported ==
    /\ program = OwnInitializerBlock.stmts /\ resolution.ran
    /\ resolution.err = "Cannot refer to local variable in its own initializer"

\* the nodes a node holds in its fields (Stmt.py, Expr.py)
Parts(node) ==
    CASE node.k = "Block" -> node.statements
      [] node.k = "Var" -> << node.initializer >>
      [] node.k = "Function" -> node.body
      [] node.k = "If" -> << node.condition, node.thenBranch, node.elseBranch >>
      [] node.k = "While" -> << node.condition, node.body >>
      [] node.k \in {"Expression", "Print", "Grouping"} -> << node.expression >>
      [] node.k \in {"Return", "Assign"} -> << node.value >>
      [] node.k = "Call" -> << node.callee >> \o node.arguments
      [] node.k \in {"Logical", "Binary"} -> << node.left, node.right >>
      [] node.k = "Class" -> << node.superclass >> \o node.methods
      [] node.k = "Get" -> << node.object >>
      [] node.k = "Set" -> << node.object, node.value >>
      [] node.k = "Unary" -> << node.right >>
      [] OTHER -> << >>

\* what a node says by itself: a name, an operator, a value
Label(node) ==
    CASE node.k \in {"Variable", "Assign", "Get", "Set", "Var", "Class"} -> node.name
      [] node.k = "Function" -> << node.name >> \o node.params
      [] node.k = "Literal" -> node.value
      [] node.k \in {"Binary", "Logical", "Unary"} -> node.operator
      [] node.k = "Super" -> node.method
      [] OTHER -> ""

\* a tree without the identities of its objects: the class of the node, its
\* label and the shapes of its parts
RECURSIVE Shape(_)
Shape(node) ==
    IF node.k = "None" THEN << "None" >>
    ELSE << node.k, Label(node),
            [i \in DOMAIN Parts(node) |-> Shape(Parts(node)[i])] >>
Shapes(nodes) == [i \in DOMAIN nodes |-> Shape(nodes[i])]

\* every node of a list of nodes, at any depth
RECURSIVE NodesOf(_)
NodesOf(nodes) ==
    UNION { IF nodes[i].k = "None" THEN {}
            ELSE {nodes[i]} \cup NodesOf(Parts(nodes[i])) : i \in DOMAIN nodes }

\* the programs that declare a name twice in one local scope
DuplicatePrograms ==
    { DupVarVar.stmts, DupVarFun.stmts, DupParamVar.stmts, DupTwoParams.stmts }

\* C21: declaring a name twice in one non-global scope - two vars, a var and a
\* function, a parameter and a var of the body, two parameters - is a resolve
\* error; defining a name again at global scope is accepted and replaces the
\* earlier value.
DuplicateDeclarationIsError ==
    /\ (resolution.ran /\ program \in DuplicatePrograms) =>
          resolution.err = "already declared"
    /\ (resolution.ran /\ program = GlobalTwice.stmts) => resolution.err = "none"
    /\ (RunOver /\ program = GlobalTwice.stmts) =>
          /\ ctl.op = "idle"
          /\ envs[Globals].vals["a"] = NumV(2)

\* the programs with a return outside every function body, and inside one
ReturnOutside ==
    { ReturnTop.stmts, ReturnTopBare.stmts, ReturnTopNested.stmts, ReturnTopLoop.stmts,
      ReturnAfterFunction.stmts }
ReturnInside ==
    { ReturnInFun.stmts, ReturnBareInFun.stmts, NestedFunctions.stmts,
      ReturnBareInInit.stmts }

\* C22: a return, with or without a value, outside every function body is a
\* resolve error, also when nested in top-level blocks, ifs or loops; inside a
\* function body it resolves without error; `return expr;` in a method named
\* init is the resolve error "Cannot return a value from an initializer." and
\* a bare `return;` there is accepted.
ReturnOnlyInFunction ==
    resolution.ran =>
        /\ program \in ReturnOutside =>
              resolution.err = "Cannot return from top-level code."
        /\ program \in ReturnInside => resolution.err = "none"
        /\ program = ReturnValueInInit.stmts =>
              resolution.err = "Cannot return a value from an initializer."

\* C23: `this` outside every class declaration is a resolve error, and so is
\* `super` outside a class or in a class without superclass; inside a method
\* both are recorded in the side table at the depth of the scope that binds
\* them (`this` one scope above the body of the method, `super` two).
ThisAndSuperNeedClass ==
    resolution.ran =>
        /\ program \in { ThisTop.stmts, ThisInFun.stmts, SuperTop.stmts,
                         SuperNoSuperclass.stmts } => resolution.err # "none"
        /\ program = ThisInMethod.stmts =>
              /\ resolution.err = "none"
              /\ 3434 \in DOMAIN locals /\ locals[3434] = 1
        /\ program = SuperInMethod.stmts =>
              /\ resolution.err = "none"
              /\ 3449 \in DOMAIN locals /\ locals[3449] = 2

\* the node of this id lies in the body of a function declaration of the program
InFunctionBody(id) ==
    \E fn \in NodesOf(program) :
        fn.k = "Function" /\ \E n \in NodesOf(fn.body) : n.id = id

\* C24: current_function follows a stack discipline: at every node of the body
\* of a function declaration it is that function's kind, at every node outside
\* all function bodies it is NOFUN - also after a declaration, however nested,
\* has been resolved - and it is NOFUN when the walk is over.
CurrentFunctionIsStack ==
    /\ \A i \in DOMAIN resolution.marks :
          resolution.marks[i].current_function =
              IF InFunctionBody(resolution.marks[i].id) THEN "FUNCTION" ELSE "NOFUN"
    /\ (resolution.ran /\ resolution.err = "none") =>
          resolution.current_function = "NOFUN"

\* the resolver walked through g inside f, the rest of f and the statement
\* after f
NestedFunctionsResolved ==
    /\ program = NestedFunctions.stmts /\ resolution.ran /\ resolution.err = "none"
    /\ \E i, j, k \in DOMAIN resolution.marks :
          /\ i < j /\ j < k
          /\ resolution.marks[i].id = 3503 /\ resolution.marks[j].id = 3505
          /\ resolution.marks[k].id = 3507

(***************************************************************************)
(* The parser.  Parsed: parse() has returned.                              *)
(***************************************************************************)
Parsed == parser.phase \notin {"absent", "parsing"}

\* whether a statement inside the constructs ctx (the outermost first) is in
\* a loop of the function it belongs to
RECURSIVE InLoop(_, _)
InLoop(ctx, flag) ==
    IF ctx = << >> THEN flag
    ELSE InLoop(Tail(ctx), CASE Head(ctx) \in {"while", "for"} -> TRUE
                             [] Head(ctx) \in {"fun", "method"} -> FALSE
                             [] OTHER -> flag)

BreakNodes == { node \in NodesOf(parser.results) : node.k = "Break" }
BreakTokens == { i \in DOMAIN parser.tokens : parser.tokens[i] = BreakToken }

\* C25: a break statement is accepted only lexically inside the body of a for
\* or while loop of the same function, through any nesting of blocks and if or
\* else branches; otherwise the parse error "Break statement only allowed
\* within a loop." is reported; a function or method body resets the flag.
BreakOnlyInLoop ==
    (Parsed /\ parser.source.family = "break") =>
        IF InLoop(parser.source.ctx, FALSE)
        THEN /\ parser.reports = << >>
             /\ Cardinality(BreakNodes) = 1
        ELSE /\ Len(parser.reports) = 1
             /\ parser.reports[1].token \in BreakTokens
             /\ parser.reports[1].message = "Break statement only allowed within a loop."
             /\ BreakNodes = {}

\* while (..) { fun f() { while (..) break; } } has been parsed without an
\* error: the break is in the loop of the function
BreakInInnerLoopParsed ==
    /\ Parsed /\ parser.source.family = "break"
    /\ parser.source.ctx = << "while", "fun", "while" >>
    /\ parser.reports = << >>
    /\ Cardinality(BreakNodes) = 1

\* where synchronize() may stop: at EOF, just past a `;`, or at a keyword that
\* begins a statement
StopsAt(tokens, i) ==
    \/ tokens[i].type = "EOF"
    \/ i > 1 /\ tokens[i - 1].type = "SEMICOLON"
    \/ tokens[i].type \in {"CLASS", "FUN", "VAR", "FOR", "IF", "WHILE", "PRINT", "RETURN"}

\* C26: a parse error inside a declaration is reported once; the parser then
\* discards tokens until it is just past a `;`, at one of the keywords class,
\* fun, var, for, if, while, print, return, or at EOF, and goes on parsing, so
\* that a later malformed statement is reported in the same parse.
ErrorRecovery ==
    /\ parser.phase # "absent" =>
          /\ Len(parser.syncs) = Len(parser.reports)
          /\ \A i \in DOMAIN parser.syncs :
                LET from == parser.syncs[i].from
                    to == parser.syncs[i].to
                IN /\ from <= to
                   /\ to = from => parser.tokens[from].type = "EOF"
                   /\ StopsAt(parser.tokens, to)
                   /\ \A j \in from + 1..to - 1 : ~StopsAt(parser.tokens, j)
    /\ (Parsed /\ parser.source.family = "recovery" /\ parser.source.n = 1) =>
          /\ Len(parser.reports) = 2
          /\ parser.reports[1] = [token |-> 2, message |-> "Unanticipated input"]
          /\ parser.reports[2] = [token |-> 7, message |-> "Expect variable name."]
          /\ [i \in 1..4 |-> parser.results[i].k] = << "None", "Print", "None", "Print" >>
    /\ (Parsed /\ parser.source.family = "recovery" /\ parser.source.n \in {7, 9, 10}) =>
          /\ Len(parser.reports) >= 2
          /\ \E i \in DOMAIN parser.results : parser.results[i].k \in {"Print", "If", "While"}

\* print; print 1; var = 2; print 3; has been parsed: two errors, and the two
\* well-formed statements are in the result
TwoErrorsReported ==
    /\ Parsed /\ parser.source.family = "recovery" /\ parser.source.n = 1
    /\ Len(parser.reports) = 2 /\ Len(parser.syncs) = 2
    /\ parser.results[2].k = "Print" /\ parser.results[4].k = "Print"

\* C27: with L = Max_Args, a function or method declaration with at most L
\* parameters and a call with at most L arguments parse without error, and
\* more than L parameters or arguments are a parse error: the same bound for
\* parameters and for arguments.
SameLimit ==
    (Parsed /\ parser.source.family \in {"parameters", "method", "arguments"}) =>
        ((parser.reports = << >>) <=> (parser.source.n <= Max_Args))

\* shapes written out: a node with its label and parts, a number, a name
Sh(k, label, parts) == << k, label, parts >>
Lit(n) == Sh("Literal", NumV(n), << >>)
Name(name) == Sh("Variable", name, << >>)

\* C28: an argument list is accepted only as expression ("," expression)*;
\* f(1 2), without the comma, and f(1,), with a trailing comma, are parse
\* errors and not calls.
ArgumentListForm ==
    (Parsed /\ parser.source.family = "call") =>
        CASE parser.source.n = 1 ->
                /\ parser.reports = << >>
                /\ Shapes(parser.results) =
                      << Sh("Print", "", << Sh("Call", "", << Name("f"), Lit(1), Lit(2) >>) >>) >>
          [] parser.source.n = 4 ->
                /\ parser.reports = << >>
                /\ Shapes(parser.results) =
                      << Sh("Print", "", << Sh("Call", "", << Name("f") >>) >>) >>
          [] OTHER -> parser.reports # << >> /\ parser.results = << NoNode >>

\* the report of an assignment whose left side is no target, made at token i
InvalidTarget(i) ==
    /\ parser.reports = << [token |-> i, message |-> "Invalid target for assignment"] >>
    /\ parser.tokens[i].type = "EQUAL"
    /\ parser.results[2] = NoNode

\* C29: an expression followed by `=` gives Assign when the left side parsed
\* as a Variable, Set when it parsed as a Get, and otherwise (a literal, a
\* grouping such as (a) = 1, a call, a binary expression) the report "Invalid
\* target for assignment" at the `=` token; the right side is an assignment,
\* so a = b = c is Assign(a, Assign(b, c)).
AssignmentTargets ==
    /\ (Parsed /\ parser.source.family = "assign") =>
          LET n == parser.source.n IN
          CASE n = 1 ->
                  /\ parser.reports = << >>
                  /\ Shape(parser.results[2]) =
                        Sh("Expression", "", << Sh("Assign", "a", << Lit(1) >>) >>)
            [] n = 2 ->
                  /\ parser.reports = << >>
                  /\ Shape(parser.results[2]) =
                        Sh("Expression", "", << Sh("Set", "b", << Name("a"), Lit(1) >>) >>)
            [] n = 3 ->
                  /\ parser.reports = << >>
                  /\ Shape(parser.results[2]) =
                        Sh("Expression", "",
                           << Sh("Set", "b", << Sh("Call", "", << Name("f") >>), Lit(1) >>) >>)
            [] OTHER -> InvalidTarget(3 + Len(Targets[n]))
    /\ (Parsed /\ parser.source.family = "chain") =>
          CASE parser.source.n = 1 ->
                  /\ parser.reports = << >>
                  /\ Shape(parser.results[2]) =
                        Sh("Expression", "",
                           << Sh("Assign", "a", << Sh("Assign", "b", << Name("c") >>) >>) >>)
            [] parser.source.n = 2 ->
                  /\ parser.reports = << >>
                  /\ Shape(parser.results[2]) =
                        Sh("Expression", "",
                           << Sh("Set", "b", << Name("a"),
                                                Sh("Assign", "c", << Lit(1) >>) >>) >>)
            [] OTHER -> InvalidTarget(6)

\* (a) = 1; has been rejected at its `=`
GroupingTargetRejected ==
    /\ Parsed /\ parser.source.family = "assign"
    /\ Targets[parser.source.n] = << "(", "a", ")" >>
    /\ parser.reports = << [token |-> 6, message |-> "Invalid target for assignment"] >>
    /\ parser.tokens[6].lexeme = "="

\* { init; while (cond) { body; incr; } } for the parts that are there, the
\* body being { print 1; }, init var i = 0 or 0, cond false and incr 2
ForBody == Sh("Block", "", << Sh("Print", "", << Lit(1) >>) >>)
Desugared(parts) ==
    LET loop_body == IF parts[3] = "incr"
                     THEN Sh("Block", "", << ForBody, Sh("Expression", "", << Lit(2) >>) >>)
                     ELSE ForBody
        loop == Sh("While", "",
                   << Sh("Literal", BoolV(parts[2] # "cond"), << >>), loop_body >>)
    IN CASE parts[1] = "var" -> Sh("Block", "", << Sh("Var", "i", << Lit(0) >>), loop >>)
         [] parts[1] = "expr" -> Sh("Block", "", << Sh("Expression", "", << Lit(0) >>), loop >>)
         [] OTHER -> loop

\* the executions of the statements print 1; and 2; of the program, in order
BodyAndIncrement ==
    LET stmts == { node \in NodesOf(program) :
                      \/ node.k = "Print"
                      \/ node.k = "Expression" /\ node.expression = Literal(node.expression.id, NumV(2)) }
        ids == { node.id : node \in stmts }
        ran == SelectSeq(runlog, LAMBDA id : id \in ids)
    IN [i \in DOMAIN ran |-> (CHOOSE node \in stmts : node.id = ran[i]).k]

\* C30: for (init; cond; incr) body is parsed into the statements of
\* { init; while (cond) { body; incr; } }: a missing cond is the literal true,
\* a missing init leaves out the outer block, a missing incr leaves body alone
\* as the loop body, and incr runs after body in every iteration.
ForDesugared ==
    /\ (Parsed /\ parser.source.family = "for") =>
          /\ parser.reports = << >>
          /\ Shapes(parser.results) = << Desugared(parser.source.ctx) >>
    /\ (parser.phase = "handed" /\ parser.source.family = "for"
          /\ parser.source.ctx[3] = "incr") =>
          \A i \in DOMAIN BodyAndIncrement :
             BodyAndIncrement[i] = IF i % 2 = 1 THEN "Print" ELSE "Expression"

\* for (var i = 0; ; 2) { print 1; } has run its body and its increment twice
ForLoopIterated ==
    /\ parser.phase = "handed" /\ parser.source.family = "for"
    /\ parser.source.ctx = << "var", "", "incr" >>
    /\ BodyAndIncrement = << "Print", "Expression", "Print", "Expression" >>
    /\ Len(output) = 2

\* C6: the call of a class yields the instance it has just created, and the
\* call of a bound initializer yields the instance it is bound to, whatever
\* its body did.
InitYieldsInstance ==
    (TopIs("visitCall") /\ Top.pc = "call" /\ ctl.op = "ret") =>
        /\ Top.callee.t = "class" =>
              /\ ctl.val = InstV(Top.is0 + 1)
              /\ Len(insts) > Top.is0
              /\ insts[Top.is0 + 1].klass = Top.callee.v
        /\ (Top.callee.t = "fun" /\ funs[Top.callee.v].isInitializer
              /\ Has(envs, funs[Top.callee.v].closure, "this")) =>
              ctl.val = envs[funs[Top.callee.v].closure].vals["this"]

\* the bound init of class C returned the instance after its body ran `return;`
InitReturnedInstance ==
    /\ TopIs("visitCall") /\ Top.pc = "call" /\ ctl.op = "ret"
    /\ Top.callee.t = "fun" /\ funs[Top.callee.v].isInitializer
    /\ ctl.val.t = "inst"
    /\ runlog # << >> /\ runlog[Len(runlog)] = 1451

\* how often evaluate() was given the node `id` since position `from` of evlog
Evaluations(from, id) == Cardinality({j \in (from + 1)..Len(evlog) : evlog[j] = id})

\* the right operand is only ever evaluated for a left value that asks for it
RightOperandNeeded ==
    \A i \in 1..Len(stack) :
        (stack[i].f = "visitLogical" /\ stack[i].pc = "right") =>
            IF stack[i].node.operator = "OR" THEN ~isTruthy(stack[i].lvalue)
            ELSE isTruthy(stack[i].lvalue)

\* a visitLogical returns: after one evaluation of the left operand, either its
\* value as it is, the right operand untouched, or the value of the right operand
LogicalReturns ==
    (TopIs("visitLogical") /\ ctl.op = "ret" /\ stack' = Pop) =>
        /\ ctl'.op = "ret" /\ ctl'.val = ctl.val
        /\ Evaluations(Top.ev0, Top.node.left.id) = 1
        /\ IF Top.pc = "left"
           THEN /\ Evaluations(Top.ev0, Top.node.right.id) = 0
                /\ IF Top.node.operator = "OR" THEN isTruthy(ctl.val) ELSE ~isTruthy(ctl.val)
           ELSE /\ Evaluations(Top.ev0, Top.node.right.id) = 1
                /\ IF Top.node.operator = "OR" THEN ~isTruthy(Top.lvalue)
                   ELSE isTruthy(Top.lvalue)

\* C7: `a or b` evaluates a once and yields a's value unchanged, without
\* evaluating b, if it is truthy, else b's value; `a and b` yields a's value,
\* without evaluating b, if it is not truthy, else b's value.
LogicalShortCircuits == [] RightOperandNeeded /\ [][LogicalReturns]_vars

\* `1 or 2` has returned the number 1 and its right operand was not evaluated
OrReturnedLeftValue ==
    /\ ctl.op = "ret" /\ ctl.node.k = "Logical" /\ ctl.node.operator = "OR"
    /\ ctl.val = NumV(1)
    /\ Evaluations(0, ctl.node.left.id) = 1
    /\ Evaluations(0, ctl.node.right.id) = 0

\* the ids of the first n arguments of a Call node, in order
ArgumentIds(node, n) == [j \in 1..n |-> node.arguments[j].id]

\* the evaluations of the arguments of the call of activation fr, in order
ArgumentsEvaluated(fr) ==
    LET IsArgument(id) == \E j \in 1..Len(fr.node.arguments) : fr.node.arguments[j].id = id
    IN SelectSeq(SubSeq(evlog, fr.ev0 + 1, Len(evlog)), IsArgument)

\* every visitCall in progress: the callee came first; no argument before the
\* callee is known to be callable; the arguments in order, once each
CallInOrder ==
    \A i \in 1..Len(stack) :
        stack[i].f = "visitCall" =>
            LET fr == stack[i]
                n == Len(fr.node.arguments)
            IN /\ Len(evlog) > fr.ev0 => evlog[fr.ev0 + 1] = fr.node.callee.id
               /\ fr.pc = "callee" => ArgumentsEvaluated(fr) = << >>
               /\ fr.pc # "callee" => isCallable(fr.callee)
               /\ fr.pc = "arguments" =>
                     \E m \in {Len(fr.params), Len(fr.params) + 1} :
                         m <= n /\ ArgumentsEvaluated(fr) = ArgumentIds(fr.node, m)
               /\ fr.pc \in {"arity", "call"} =>
                     /\ Len(fr.params) = n
                     /\ ArgumentsEvaluated(fr) = ArgumentIds(fr.node, n)

\* the Type error of a call is raised with none of its arguments evaluated
TypeErrorBeforeArguments ==
    (TopIs("visitCall") /\ ctl'.op = "raise" /\ ctl'.msg = TypeErrorMsg /\ stack' = Pop) =>
        /\ Top.pc = "callee" /\ ~isCallable(ctl.val)
        /\ ArgumentsEvaluated(Top) = << >>

\* a wrong number of arguments raises the Arity error, nothing else happens
ArityErrorWithoutCall ==
    (TopIs("visitCall") /\ Top.pc = "arity"
        /\ arity(funs, classes, Top.callee) # Len(Top.params)) =>
            /\ ctl'.op = "raise" /\ ctl'.exc = "EvaluationError" /\ ctl'.msg = ArityErrorMsg
            /\ stack' = Pop
            /\ runlog' = runlog /\ UNCHANGED << heap, environment, output >>

\* C8: a call evaluates its callee first; a callee that is not callable raises
\* the Type error before any argument is evaluated; else the arguments are
\* evaluated left to right, once each; then a wrong argument count raises the
\* Arity error and the body of the callee is not executed.
CallEvaluationOrder ==
    [] CallInOrder /\ [][TypeErrorBeforeArguments /\ ArityErrorWithoutCall]_vars

\* f(1) raised the Arity error right after evaluating its one argument,
\* with nothing of f's body executed since the statement began
ArityErrorRaised ==
    /\ ctl.op = "raise" /\ ctl.msg = ArityErrorMsg /\ ctl.node.id = 907
    /\ evlog[Len(evlog)] = 909
    /\ runlog[Len(runlog)] = 906

\* the Environments from e up to the outermost, nearest first
RECURSIVE ChainOf(_, _)
ChainOf(h, e) == IF e = None THEN << >> ELSE << e >> \o ChainOf(h, h[e].enclosing)

\* the positions in the chain of the Environments that bind the name
Holders(h, chain, name) == {j \in 1..Len(chain) : name \in DOMAIN h[chain[j]].vals}

\* heap `after` is heap `before` but for name bound to value in Environment n
OnlyChanged(before, after, n, name, value) ==
    /\ Len(after) = Len(before)
    /\ \A i \in 1..Len(before) :
          /\ after[i].enclosing = before[i].enclosing
          /\ DOMAIN after[i].vals = DOMAIN before[i].vals
          /\ \A x \in DOMAIN before[i].vals :
                after[i].vals[x] = IF i = n /\ x = name THEN value ELSE before[i].vals[x]

\* C9: assign(name, value) rebinds name in the nearest Environment of the
\* chain that binds it and changes nothing else; when none binds it, it
\* raises NameError and changes nothing.
AssignNearestOnly ==
    last.op = "assign" =>
        LET chain == ChainOf(last.before, last.e)
            holders == Holders(last.before, chain, last.name)
        IN IF holders = {}
           THEN last.exc = "NameError" /\ envs = last.before
           ELSE LET nearest == CHOOSE j \in holders : \A k \in holders : j <= k IN
                /\ last.exc = "none"
                /\ OnlyChanged(last.before, envs, chain[nearest], last.name, last.value)

\* an assign found the name two Environments up and changed its value there
AssignedUpTheChain ==
    /\ last.op = "assign" /\ last.exc = "none"
    /\ Len(last.before) = 3
    /\ Holders(last.before, ChainOf(last.before, last.e), last.name) = {3}
    /\ last.before[1].vals[last.name] = NumV(1)
    /\ envs[1].vals[last.name] = NumV(2)

\* C10: getAt(depth, name) reads, and assignAt(depth, name, value) writes,
\* name in the Environment exactly depth hops up and in no other, also when
\* that Environment does not bind the name.
ScopeExactAccess ==
    (last.op \in {"getAt", "assignAt"} /\ last.depth < Len(ChainOf(last.before, last.e))) =>
        LET target == ChainOf(last.before, last.e)[last.depth + 1]
            bound == last.name \in DOMAIN last.before[target].vals
        IN /\ last.op = "getAt" =>
                 /\ envs = last.before
                 /\ last.exc = "none" =>
                       bound /\ last.val = last.before[target].vals[last.name]
           /\ last.op = "assignAt" =>
                 /\ Len(envs) = Len(last.before)
                 /\ \A i \in 1..Len(envs) : i # target => envs[i] = last.before[i]
                 /\ last.exc = "none" =>
                       Has(envs, target, last.name) /\ envs[target].vals[last.name] = last.value

(***************************************************************************)
(* The scanner.  Scanned: scanTokens() has returned; it was left by an     *)
(* exception when the phase is "raised".                                   *)
(***************************************************************************)
Scanned == scanner.phase = "scanned"
ScanOver == scanner.phase \in {"scanned", "raised"}

\* the token spans: token i starts at starts[i] and is as long as its lexeme
SpanEnd(i) == scanner.starts[i] + Len(scanner.tokens[i].lexeme)

\* C31: for every source string scanTokens returns a list that ends with the
\* only EOF token; every other token's lexeme is the slice of the source at
\* the token's start offset, and the spans follow each other in source order
\* without overlap.
ScanContract ==
    ScanOver =>
        /\ Scanned
        /\ scanner.tokens[Len(scanner.tokens)].type = "EOF"
        /\ \A i \in 1..Len(scanner.tokens) - 1 :
              /\ scanner.tokens[i].type # "EOF"
              /\ scanner.tokens[i].lexeme =
                    Slice(scanner.source, scanner.starts[i], SpanEnd(i))
              /\ i > 1 => SpanEnd(i - 1) <= scanner.starts[i]

\* a lexeme that has the shape of an identifier
IdentifierShaped(lexeme) ==
    /\ Len(lexeme) > 0 /\ isidentifier(lexeme[1])
    /\ \A i \in 1..Len(lexeme) : isalnum(lexeme[i]) \/ lexeme[i] = "_"

\* the token kind of each keyword of the language
KeywordKind(word) == IF word = break THEN "BREAK" ELSE keywords[word]

\* C32: an identifier-shaped lexeme that is one of the 17 keywords (break
\* included) is emitted with the kind of that keyword, every other
\* identifier-shaped lexeme as IDENTIFIER.
KeywordsReserved ==
    Scanned =>
        \A i \in 1..Len(scanner.tokens) :
            IdentifierShaped(scanner.tokens[i].lexeme) =>
                scanner.tokens[i].type =
                    IF scanner.tokens[i].lexeme \in Words
                    THEN KeywordKind(scanner.tokens[i].lexeme)
                    ELSE "IDENTIFIER"

\* print v; has run
Printed == Len(program) = 1 /\ program[1].id = 3901 /\ ctl = Idle("returned")

\* the text of a value as the language writes it
LoxText(v) ==
    CASE v.t = "nil" -> << "n", "i", "l" >>
      [] v.t = "bool" -> IF v.v THEN << "t", "r", "u", "e" >> ELSE << "f", "a", "l", "s", "e" >>
      [] v.t = "num" -> Digits(v.v) \o (IF "fraction" \in DOMAIN v THEN << "." >> \o v.fraction
                                        ELSE << >>)
      [] OTHER -> v.v

\* C33: print writes nil as nil, booleans as true / false, an integral number
\* without a trailing .0 and a non-integral number with its fraction, and a
\* string unchanged even when its text ends in .0.
PrintFormat == Printed => output = << LoxText(program[1].expression.value) >>

\* the break flag as the current environment shows it is True
FlagTrue == breakFlag(envs, environment).exc = "none" /\ breakFlag(envs, environment).val = BoolV(TRUE)

\* the test of a visitWhile activation is about to find the flag False
EndedByBreak ==
    /\ TopIs("visitWhile") /\ Top.pc = "condition" /\ ctl.op = "ret" /\ isTruthy(ctl.val)
    /\ ~FlagTrue

\* C34: a break ends no other loop than the innermost one it ran in: a loop
\* whose condition is truthy is left only when the last break ran in that very
\* activation, and when a while statement has returned the break flag of the
\* current environment is True again, so that the rest of an enclosing body
\* runs and an enclosing loop goes on.
BreakEndsOnlyItsLoop ==
    /\ EndedByBreak => (brk.idx = Len(stack) /\ brk.act = Top.act)
    /\ (ctl.op = "ret" /\ ctl.node.k = "While") => FlagTrue
    /\ (TopIs("execute_block") /\ ctl.op = "ret" /\ ctl.node.k = "While") =>
          (Top.i < Len(Top.stmts) => ~leavesBlock(Top, ctl, envs, environment))

\* while (true) { print 1; while (true) break; print 2; } has run its body
\* twice, the inner loop ended by its break each time
OuterLoopIterated ==
    /\ Len(program) = 2 /\ program[1].id = 4001
    /\ output = << << "1" >>, << "2" >>, << "1" >>, << "2" >> >>
    /\ brk.idx # 0 /\ ~BreakPending

\* the execute_block of a function body is about to be left without an
\* exception
BodyLeft ==
    /\ TopIs("execute_block") /\ Len(stack) > 1
    /\ stack[Len(stack) - 1].f = "LoxFunction.call"
    /\ ctl.op \in {"step", "ret"}
    /\ ctl.op = "ret" => breakFlag(envs, environment).exc = "none"
    /\ leavesBlock(Top, ctl, envs, environment)

\* C35: the call of a function executes the statements of its body in order
\* until a return statement or a runtime error, whatever break ran before:
\* a body that is left without either has executed its last statement.
BodyRunsToEnd == BodyLeft => Top.i >= Len(Top.stmts)


\* C36: parse() ends on every token list that ends in EOF, malformed ones
\* included: no iteration of the loops of parse, block, the class body, the
\* parameter list, the argument list and synchronize returns with the index
\* where it began, and every step of the loop of parse moves the index on or
\* leaves the loop
ParseProgress ==
    [][parse => /\ parser'.phase # "stalled"
                /\ \/ parser'.current > parser.current
                   \/ parser'.phase # "parsing"]_vars

\* a damaged declaration was parsed to its EOF through two recoveries
RecoveredTwice ==
    /\ parser.phase = "stopped"
    /\ parser.source.family = "damaged"
    /\ isAtEnd(parser)
    /\ Len(parser.syncs) >= 2


\* the names a scope declares: the variables and functions declared by the
\* statements of a block or of a function body, and the parameters
Statements(scope) == IF scope.k = "Block" THEN scope.statements ELSE scope.body
DeclaredIn(scope) ==
    { Statements(scope)[i].name :
        i \in { j \in DOMAIN Statements(scope) :
                  Statements(scope)[j].k \in {"Var", "Function"} } }
    \cup (IF scope.k = "Function" THEN { scope.params[i] : i \in DOMAIN scope.params }
          ELSE {})

\* the name is read or assigned somewhere in the scope, inner scopes included
ReferencedIn(scope, name) ==
    \E n \in NodesOf(Statements(scope)) : n.k \in {"Variable", "Assign"} /\ n.name = name

\* C37: the resolver reports "never referenced" for a block with a
\* declaration and a use exactly when one of the local scopes of the program
\* declares a name - variable, function or parameter - that is neither read
\* nor assigned in that scope or an inner one
NeverReferencedReported ==
    (resolution.ran /\ program \in { prog.stmts : prog \in ScopePrograms })
        => (resolution.err = "never referenced"
              <=> \E scope \in { n \in NodesOf(program) : n.k \in {"Block", "Function"} } :
                     \E name \in DeclaredIn(scope) : ~ReferencedIn(scope, name))


\* C38: define(name, value) binds name to value in the receiving Environment,
\* bound there before or not, and changes nothing else there and nothing in
\* any other Environment: a fetch of the name from the receiver gives the
\* value just defined, and a fetch from the enclosing Environment - the
\* current one again once the block has ended - gives what it gave before
DefineLocalOnly ==
    last.op = "define" =>
        LET before == last.before
            e == last.e
        IN /\ Len(envs) = Len(before)
           /\ \A i \in 1..Len(before) : i # e => envs[i] = before[i]
           /\ envs[e].enclosing = before[e].enclosing
           /\ DOMAIN envs[e].vals = (DOMAIN before[e].vals) \cup {last.name}
           /\ \A x \in DOMAIN envs[e].vals :
                 envs[e].vals[x] = IF x = last.name THEN last.value ELSE before[e].vals[x]
           /\ fetch(envs, e, last.name).exc = "none"
           /\ fetch(envs, e, last.name).val = last.value
           /\ before[e].enclosing # None =>
                 /\ fetch(envs, before[e].enclosing, last.name).exc
                       = fetch(before, before[e].enclosing, last.name).exc
                 /\ fetch(envs, before[e].enclosing, last.name).val
                       = fetch(before, before[e].enclosing, last.name).val

\* a define of a name the receiver did not bind and its enclosing Environment
\* binds to another value: the receiver now gives 2, the enclosing one still 1
OuterShadowed ==
    /\ last.op = "define"
    /\ last.before[last.e].enclosing # None
    /\ last.name \notin DOMAIN last.before[last.e].vals
    /\ fetch(last.before, last.e, last.name).val = NumV(1)
    /\ fetch(envs, last.e, last.name).val = NumV(2)
    /\ envs[envs[last.e].enclosing].vals[last.name] = NumV(1)


\* every node of a list of nodes with the number of blocks and function
\* bodies around it, the list being at depth d
RECURSIVE Enclosed(_, _)
Enclosed(nodes, d) ==
    UNION { IF nodes[i].k = "None" THEN {}
            ELSE { << nodes[i].id, d >> }
                 \cup Enclosed(Parts(nodes[i]),
                               IF nodes[i].k \in {"Block", "Function"} THEN d + 1 ELSE d) :
            i \in DOMAIN nodes }

\* C39: at every accept() of the resolver the scope stack is as deep as the
\* number of blocks and function bodies around the node visited, and after a
\* resolve() without error the stack is empty
ScopesMatchNesting ==
    resolution.ran =>
        /\ \A i \in DOMAIN resolution.marks :
              << resolution.marks[i].id, resolution.marks[i].depth >> \in Enclosed(program, 0)
        /\ resolution.err = "none" => resolution.scopes = << >>

\* a resolve() without error that visited a node three scopes deep and, after
\* the innermost scope was closed, a node two scopes deep
ResolvedThreeDeep ==
    /\ resolution.ran /\ resolution.err = "none"
    /\ resolution.scopes = << >>
    /\ \E j, k \in DOMAIN resolution.marks :
          /\ j < k
          /\ resolution.marks[j].depth = 3
          /\ resolution.marks[k].depth = 2

====
